---- MODULE Spec2Model ----
(***************************************************************************)
(* Headcount tracker: the authenticated attendance ledger.                 *)
(*                                                                         *)
(* src/app.js is the row-per-designation application (Auth, Audit,         *)
(* Attendance, DesignationMgr); src/unnamed/part_001 is the                *)
(* single-value-per-area application, the only one with AdminView.         *)
(* renameArea.  The persisted documents (localStorage keys) are the        *)
(* variables; every handler is one action, except that an async function   *)
(* is cut at the await where it suspends.                                  *)
(***************************************************************************)
EXTENDS Integers, Sequences, FiniteSets, TLC

VARIABLES
    now,          \* Date.now(), in milliseconds
    session,      \* document hc_session
    users,        \* document hc_users: a list of user records
    areas,        \* document hc_areas: the ordered area list
    attendance,   \* document hc_attendance: date -> date document
    history,      \* document hc_designation_history
    pending,      \* callbacks yet to run: Auth's calls suspended at the await of a hash,
                  \* part_001's debounce timers
    last,         \* outcome of the call that completed last (observer)
    fails,        \* observer: failed credential checks since the last successful login
    changes,      \* observer: per date, the audited field changes updateRow made, oldest first
    legacy,       \* part_001: the documents headcountAreasMaster / Users / Attendance
    dialog,       \* part_001: the open Rename Area dialog and the name it captured
    screen,       \* the entry screen as last rendered: area -> the rows its handlers captured
    asking,       \* the open Delete confirm dialogs: per application, how many captured each area name
    settings      \* document hc_settings

vars == <<now, session, users, areas, attendance, history, pending, last, fails,
          changes, legacy, dialog, screen, asking, settings>>

-----------------------------------------------------------------------------
(* Configuration: CONFIG of app.js:4-28 *)

SESSION_DURATION == 28800000
LOCKOUT_DURATION == 300000
MAX_LOGIN_ATTEMPTS == 5
MAX_AUDIT_ENTRIES == 10
MAX_GLOBAL_DESIGNATION_HISTORY == 100
MAX_AREA_DESIGNATION_HISTORY == 50

\* JavaScript null in a numeric field (timestamps and counts are >= 0).
Null == -1
\* JavaScript null in a username field.
NoUser == "null"
\* The empty object {} : a map without keys.
EmptyMap == [k \in {} |-> Null]

-----------------------------------------------------------------------------
(* Bounds of the model *)

MaxTicks == 2        \* clock advances per behaviour
MaxFailCount == 6    \* failedLogin.count is not driven above this
MaxPending == 1      \* login calls suspended at the same time
MaxDirectAppends == 2  \* ring length up to which Audit.addEntry is called on its own
MaxChanges == 11     \* audited field changes followed per date

-----------------------------------------------------------------------------
(* Inputs *)

Passwords == {"pw1", "pw2"}
Salts == {"s1", "s2"}
Usernames == {"alice", "bob", "mallory"}   \* mallory is never a user

Toggled == {"bob"}                         \* the account an admin disables and enables

\* Utils.hashPassword: SHA-256 of password + salt, taken as collision free.
hashPassword(password, salt) == <<password, salt>>

\* The user list the model starts from: one admin and one regular user,
\* as Auth.createUser builds them (createdAt is never read and is left out).
InitialUsers ==
    << [username |-> "alice", role |-> "admin", salt |-> "s1",
        passwordHash |-> hashPassword("pw1", "s1"),
        assignedAreas |-> << >>, disabled |-> FALSE],
       [username |-> "bob", role |-> "user", salt |-> "s2",
        passwordHash |-> hashPassword("pw2", "s2"),
        assignedAreas |-> <<"Spool Yard">>, disabled |-> FALSE] >>

\* Storage.getSession's default document.
EmptySession ==
    [currentUser |-> NoUser, expiresAt |-> Null,
     failedLogin |-> [count |-> 0, cooldownUntil |-> Null]]

\* Storage.getDesignationHistory's default document.
EmptyHistory == [global |-> << >>, byArea |-> EmptyMap]

DEFAULT_RETENTION_DAYS == 180

\* Storage.getSettings when nothing is stored.
DefaultSettings == [darkMode |-> FALSE, retentionDays |-> DEFAULT_RETENTION_DAYS]

\* The area list the first run stores: two of CONFIG.DEFAULT_AREAS.
DEFAULT_AREAS == <<"Spool Yard", "PWHT">>

\* No Rename Area dialog is open.
NoDialog == [kind |-> "none", name |-> "none"]
\* No Delete confirm dialog is open.
NoAsking == [app |-> EmptyMap, legacy |-> EmptyMap]

\* The clock steps the model takes: one millisecond, one lockout, one session.
TickSteps == {1, LOCKOUT_DURATION, SESSION_DURATION}

-----------------------------------------------------------------------------
(* Auth: pure parts *)

\* users.find(u => u.username === username): index of the first match, 0 if none.
FindUser(us, username) ==
    LET hits == {i \in 1..Len(us) : us[i].username = username}
    IN  IF hits = {} THEN 0 ELSE CHOOSE i \in hits : \A j \in hits : i <= j

IsLockedOut_NeverExpires(sess, t) ==
    sess.failedLogin.cooldownUntil # Null

IsLockedOut_Inverted(sess, t) ==
    /\ sess.failedLogin.cooldownUntil # Null
    /\ t > sess.failedLogin.cooldownUntil

\* The lockout test of Auth.login.
IsLockedOut(sess, t) ==
    /\ sess.failedLogin.cooldownUntil # Null
    /\ t < sess.failedLogin.cooldownUntil

HandleFailedLogin_OffByOne(sess, t) ==
    LET n == sess.failedLogin.count + 1
    IN  [sess EXCEPT !.failedLogin =
            [count |-> n,
             cooldownUntil |-> IF n > MAX_LOGIN_ATTEMPTS
                               THEN t + LOCKOUT_DURATION
                               ELSE sess.failedLogin.cooldownUntil]]

\* Auth._handleFailedLogin applied to the session it has just read.
HandleFailedLogin(sess, t) ==
    LET n == sess.failedLogin.count + 1
    IN  [sess EXCEPT !.failedLogin =
            [count |-> n,
             cooldownUntil |-> IF n >= MAX_LOGIN_ATTEMPTS
                               THEN t + LOCKOUT_DURATION
                               ELSE sess.failedLogin.cooldownUntil]]

LoginSuccess_KeepsFailures(sess, username, t) ==
    [sess EXCEPT !.currentUser = username,
                 !.expiresAt = t + SESSION_DURATION]

\* The tail of Auth.login: the three assignments before saveSession.
LoginSuccess(sess, username, t) ==
    [sess EXCEPT !.currentUser = username,
                 !.expiresAt = t + SESSION_DURATION,
                 !.failedLogin = [count |-> 0, cooldownUntil |-> Null]]

LogoutSession_ClearsFailures(sess) ==
    [sess EXCEPT !.currentUser = NoUser, !.expiresAt = Null,
                 !.failedLogin = [count |-> 0, cooldownUntil |-> Null]]

\* Auth.logout applied to the session it has just read.
LogoutSession(sess) ==
    [sess EXCEPT !.currentUser = NoUser, !.expiresAt = Null]

CurrentUser_SkipsUserCheck(sess, us, t) ==
    IF sess.currentUser = NoUser
    THEN [user |-> NoUser, via |-> "noSession", session |-> sess]
    ELSE IF sess.expiresAt # Null /\ t > sess.expiresAt
    THEN [user |-> NoUser, via |-> "expired", session |-> LogoutSession(sess)]
    ELSE [user |-> sess.currentUser, via |-> "live", session |-> sess]

CurrentUser_IgnoresDisabled(sess, us, t) ==
    LET i == FindUser(us, sess.currentUser)
    IN  IF sess.currentUser = NoUser
        THEN [user |-> NoUser, via |-> "noSession", session |-> sess]
        ELSE IF sess.expiresAt # Null /\ t > sess.expiresAt
        THEN [user |-> NoUser, via |-> "expired", session |-> LogoutSession(sess)]
        ELSE IF i = 0
        THEN [user |-> NoUser, via |-> "userGone", session |-> LogoutSession(sess)]
        ELSE [user |-> sess.currentUser, via |-> "live", session |-> sess]

CurrentUser_NoExpiry(sess, us, t) ==
    LET i == FindUser(us, sess.currentUser)
    IN  IF sess.currentUser = NoUser
        THEN [user |-> NoUser, via |-> "noSession", session |-> sess]
        ELSE IF i = 0 \/ us[i].disabled
        THEN [user |-> NoUser, via |-> "userGone", session |-> LogoutSession(sess)]
        ELSE [user |-> sess.currentUser, via |-> "live", session |-> sess]

\* Auth.getCurrentUser: the username it returns (NoUser for null), the return
\* statement it takes, and the session document it leaves behind.
CurrentUser(sess, us, t) ==
    LET i == FindUser(us, sess.currentUser)
    IN  IF sess.currentUser = NoUser
        THEN [user |-> NoUser, via |-> "noSession", session |-> sess]
        ELSE IF sess.expiresAt # Null /\ t > sess.expiresAt
        THEN [user |-> NoUser, via |-> "expired", session |-> LogoutSession(sess)]
        ELSE IF i = 0 \/ us[i].disabled
        THEN [user |-> NoUser, via |-> "userGone", session |-> LogoutSession(sess)]
        ELSE [user |-> sess.currentUser, via |-> "live", session |-> sess]

-----------------------------------------------------------------------------
(* Auth: actions *)

ledgerVars == <<areas, attendance, history, changes>>
legacyVars == <<legacy, dialog, asking>>

LoginBegin_DisabledCounts(username, password) ==
    LET i == FindUser(users, username)
    IN  /\ UNCHANGED <<now, users, ledgerVars, legacyVars, screen, settings>>
        /\ IF IsLockedOut(session, now)
           THEN /\ last' = [op |-> "login", res |-> "AccountLocked"]
                /\ UNCHANGED <<session, pending, fails>>
           ELSE IF i = 0
           THEN /\ session.failedLogin.count < MaxFailCount
                /\ session' = HandleFailedLogin(session, now)
                /\ last' = [op |-> "login", res |-> "InvalidCredentials"]
                /\ fails' = fails + 1
                /\ UNCHANGED pending
           ELSE IF users[i].disabled
           THEN /\ session.failedLogin.count < MaxFailCount
                /\ session' = HandleFailedLogin(session, now)
                /\ last' = [op |-> "login", res |-> "AccountDisabled"]
                /\ fails' = fails + 1
                /\ UNCHANGED pending
           ELSE /\ Cardinality(pending) < MaxPending
                /\ pending' = pending \cup
                      {[op |-> "login",
                        username |-> username, password |-> password,
                        salt |-> users[i].salt,
                        passwordHash |-> users[i].passwordHash,
                        afterLockout |->
                            /\ session.failedLogin.cooldownUntil # Null
                            /\ now >= session.failedLogin.cooldownUntil]}
                /\ UNCHANGED <<session, last, fails>>

\* Auth.login up to its await: the lockout test, the user lookup, the
\* disabled test.  A call that reaches the await is added to pending with
\* the user record it read; sess is not carried, because each of its fields
\* is overwritten before the save of app.js:299.
LoginBegin(username, password) ==
    LET i == FindUser(users, username)
    IN  /\ UNCHANGED <<now, users, ledgerVars, legacyVars, screen, settings>>
        /\ IF IsLockedOut(session, now)
           THEN /\ last' = [op |-> "login", res |-> "AccountLocked"]
                /\ UNCHANGED <<session, pending, fails>>
           ELSE IF i = 0
           THEN /\ session.failedLogin.count < MaxFailCount
                /\ session' = HandleFailedLogin(session, now)
                /\ last' = [op |-> "login", res |-> "InvalidCredentials"]
                /\ fails' = fails + 1
                /\ UNCHANGED pending
           ELSE IF users[i].disabled
           THEN /\ last' = [op |-> "login", res |-> "AccountDisabled"]
                /\ UNCHANGED <<session, pending, fails>>
           ELSE /\ Cardinality(pending) < MaxPending
                /\ pending' = pending \cup
                      {[op |-> "login",
                        username |-> username, password |-> password,
                        salt |-> users[i].salt,
                        passwordHash |-> users[i].passwordHash,
                        afterLockout |->
                            /\ session.failedLogin.cooldownUntil # Null
                            /\ now >= session.failedLogin.cooldownUntil]}
                /\ UNCHANGED <<session, last, fails>>

\* Auth.login from its await on: the hash comparison, then either
\* _handleFailedLogin (which reads the session anew) or the success tail.
LoginResume(call) ==
    /\ call \in pending
    /\ pending' = pending \ {call}
    /\ UNCHANGED <<now, users, ledgerVars, legacyVars, screen, settings>>
    /\ IF hashPassword(call.password, call.salt) # call.passwordHash
       THEN /\ session.failedLogin.count < MaxFailCount
            /\ session' = HandleFailedLogin(session, now)
            /\ last' = [op |-> "login", res |-> "InvalidCredentials"]
            /\ fails' = fails + 1
       ELSE /\ session' = LoginSuccess(session, call.username, now)
            /\ last' = [op |-> "login", res |-> "ok"]
            /\ fails' = 0

LoginOutcome_UnknownUserNotCounted(sess, us, t, username, password) ==
    LET i == FindUser(us, username)
    IN  IF IsLockedOut(sess, t)
        THEN [res |-> "AccountLocked", session |-> sess]
        ELSE IF i = 0
        THEN [res |-> "InvalidCredentials", session |-> sess]
        ELSE IF us[i].disabled
        THEN [res |-> "AccountDisabled", session |-> sess]
        ELSE IF hashPassword(password, us[i].salt) # us[i].passwordHash
        THEN [res |-> "InvalidCredentials", session |-> HandleFailedLogin(sess, t)]
        ELSE [res |-> "ok", session |-> LoginSuccess(sess, username, t)]

\* Auth.login run from start to end with nothing in between: what it throws
\* or returns, and the session document it leaves.
LoginOutcome(sess, us, t, username, password) ==
    LET i == FindUser(us, username)
    IN  IF IsLockedOut(sess, t)
        THEN [res |-> "AccountLocked", session |-> sess]
        ELSE IF i = 0
        THEN [res |-> "InvalidCredentials", session |-> HandleFailedLogin(sess, t)]
        ELSE IF us[i].disabled
        THEN [res |-> "AccountDisabled", session |-> sess]
        ELSE IF hashPassword(password, us[i].salt) # us[i].passwordHash
        THEN [res |-> "InvalidCredentials", session |-> HandleFailedLogin(sess, t)]
        ELSE [res |-> "ok", session |-> LoginSuccess(sess, username, t)]

Logout_KeepsExpiry ==
    /\ session' = [session EXCEPT !.currentUser = NoUser]
    /\ last' = [op |-> "logout", res |-> "ok"]
    /\ UNCHANGED <<now, users, pending, fails, ledgerVars, legacyVars, screen, settings>>

\* Auth.logout, from the logout button.
Logout ==
    /\ session' = LogoutSession(session)
    /\ last' = [op |-> "logout", res |-> "ok"]
    /\ UNCHANGED <<now, users, pending, fails, ledgerVars, legacyVars, screen, settings>>

\* Auth.getCurrentUser called on its own (App.init, a view's render, isAdmin).
GetCurrentUser ==
    LET r == CurrentUser(session, users, now)
    IN  /\ session' = r.session
        /\ last' = [op |-> "getCurrentUser", res |-> r.user, via |-> r.via]
        /\ UNCHANGED <<now, users, pending, fails, ledgerVars, legacyVars, screen, settings>>

\* AdminView.toggleUser: flips disabled on the user it finds.
ToggleUser(username) ==
    LET i == FindUser(users, username)
    IN  /\ i # 0
        /\ users' = [users EXCEPT ![i].disabled = ~users[i].disabled]
        /\ last' = [op |-> "toggleUser", res |-> "ok"]
        /\ UNCHANGED <<now, session, pending, fails, ledgerVars, legacyVars, screen, settings>>

\* The clock; the number of advances is bounded through the time reached.
TicksOf(t) ==
    (t \div SESSION_DURATION)
    + ((t % SESSION_DURATION) \div LOCKOUT_DURATION)
    + ((t % SESSION_DURATION) % LOCKOUT_DURATION)

Tick(d) ==
    /\ TicksOf(now) < MaxTicks
    /\ now' = now + d
    /\ UNCHANGED <<session, users, pending, last, fails, ledgerVars, legacyVars, screen, settings>>

-----------------------------------------------------------------------------
(* Designations: Utils.normalizeDesignation and DesignationMgr.addToHistory *)

\* A text is a sequence of characters.  The characters the labels use:
IsSpace(c) == c \in {" ", "\t"}

toLowerCase(c) ==
    CASE c = "W" -> "w"
      [] c = "F" -> "f"
      [] OTHER -> c

RECURSIVE TrimStart(_)
TrimStart(text) ==
    IF text # << >> /\ IsSpace(Head(text)) THEN TrimStart(Tail(text)) ELSE text

RECURSIVE TrimEnd(_)
TrimEnd(text) ==
    IF text # << >> /\ IsSpace(text[Len(text)])
    THEN TrimEnd(SubSeq(text, 1, Len(text) - 1))
    ELSE text

\* text.replace(/\s+/g, ' '): every maximal run of whitespace becomes one space.
RECURSIVE CollapseSpaces(_)
CollapseSpaces(text) ==
    IF text = << >> THEN << >>
    ELSE IF IsSpace(Head(text))
    THEN <<" ">> \o CollapseSpaces(TrimStart(text))
    ELSE <<Head(text)>> \o CollapseSpaces(Tail(text))

normalizeDesignation_NoCollapse(text) ==
    LET t == TrimEnd(TrimStart(text))
    IN  [i \in 1..Len(t) |-> toLowerCase(t[i])]

normalizeDesignation(text) ==
    LET t == CollapseSpaces(TrimEnd(TrimStart(text)))
    IN  [i \in 1..Len(t) |-> toLowerCase(t[i])]

\* Array.prototype.slice(0, n)
Slice(list, n) == SubSeq(list, 1, IF Len(list) < n THEN Len(list) ELSE n)

\* obj[key] = value on a map.
Put(map, key, value) ==
    [k \in DOMAIN map \cup {key} |-> IF k = key THEN value ELSE map[k]]

addToHistory_KeepsOldSpelling(h, designationLabel, areaName) ==
    LET old == IF areaName \in DOMAIN h.byArea THEN h.byArea[areaName] ELSE << >>
    IN  [global |-> Slice(<<designationLabel>> \o h.global,
                          MAX_GLOBAL_DESIGNATION_HISTORY),
         byArea |-> Put(h.byArea, areaName,
                        Slice(<<designationLabel>> \o old,
                              MAX_AREA_DESIGNATION_HISTORY))]

\* DesignationMgr.addToHistory on the history document it has read.
addToHistory(h, designationLabel, areaName) ==
    LET norm == normalizeDesignation(designationLabel)
        Other(d) == normalizeDesignation(d) # norm
        old == IF areaName \in DOMAIN h.byArea THEN h.byArea[areaName] ELSE << >>
    IN  [global |-> Slice(<<designationLabel>> \o SelectSeq(h.global, Other),
                          MAX_GLOBAL_DESIGNATION_HISTORY),
         byArea |-> Put(h.byArea, areaName,
                        Slice(<<designationLabel>> \o SelectSeq(old, Other),
                              MAX_AREA_DESIGNATION_HISTORY))]

-----------------------------------------------------------------------------
(* Storage, Audit and Attendance of app.js: pure parts *)

Dates == {"2024-05-01"}
AreaNames == {"Spool Yard", "PWHT"}
Labels == { <<"W">>, <<" ", "w", "\t">>, <<"F">> }
Keys == {normalizeDesignation(l) : l \in Labels}
PresentValues == {Null, 0, 3}

\* The updates argument of updateRow: the fields it holds and their values
\* (a field it does not hold is given its blank value here and never read).
Updates ==
    {[fields |-> {"present"}, present |-> v, confirmed |-> FALSE] : v \in PresentValues}
    \cup {[fields |-> {"confirmed"}, present |-> Null, confirmed |-> b] : b \in BOOLEAN}
    \cup {[fields |-> {"present", "confirmed"}, present |-> v, confirmed |-> b] :
            v \in PresentValues, b \in BOOLEAN}
    \cup {[fields |-> {}, present |-> Null, confirmed |-> FALSE]}

\* The document Storage.getAttendanceForDate makes up for a date without one.
NewDateDoc == [areas |-> EmptyMap, audit |-> << >>, updatedAt |-> Null, updatedBy |-> NoUser]

getAttendanceForDate(att, dateStr) ==
    IF dateStr \in DOMAIN att THEN att[dateStr] ELSE NewDateDoc

saveAttendanceForDate(att, dateStr, data) == Put(att, dateStr, data)

\* Audit.getEntries
getEntries(att, dateStr) == getAttendanceForDate(att, dateStr).audit

AuditEntry(t, username, areaName, designationKey, field, oldVal, newVal) ==
    [ts |-> t, user |-> username, area |-> areaName, designationKey |-> designationKey,
     field |-> field, from |-> oldVal, to |-> newVal]

addEntry_NoCap(att, username, t, dateStr, areaName, designationKey, field, oldVal, newVal) ==
    LET data == getAttendanceForDate(att, dateStr)
        ring == <<AuditEntry(t, username, areaName, designationKey, field, oldVal, newVal)>>
                \o data.audit
    IN  saveAttendanceForDate(att, dateStr, [data EXCEPT !.audit = ring])

\* Audit.addEntry for a live user: the attendance document it saves.
addEntry(att, username, t, dateStr, areaName, designationKey, field, oldVal, newVal) ==
    LET data == getAttendanceForDate(att, dateStr)
        ring == <<AuditEntry(t, username, areaName, designationKey, field, oldVal, newVal)>>
                \o data.audit
    IN  saveAttendanceForDate(att, dateStr,
            [data EXCEPT !.audit = IF Len(ring) > MAX_AUDIT_ENTRIES
                                   THEN Slice(ring, MAX_AUDIT_ENTRIES)
                                   ELSE ring])

RowIndex_ByLabel(rows, designationKey) ==
    LET hits == {i \in 1..Len(rows) : rows[i].designationLabel = designationKey}
    IN  IF hits = {} THEN 0 ELSE CHOOSE i \in hits : \A j \in hits : i <= j

\* rows.find(r => r.designationKey === designationKey): index of the first match, 0 if none.
RowIndex(rows, designationKey) ==
    LET hits == {i \in 1..Len(rows) : rows[i].designationKey = designationKey}
    IN  IF hits = {} THEN 0 ELSE CHOOSE i \in hits : \A j \in hits : i <= j

RowsOf(data, areaName) ==
    IF areaName \in DOMAIN data.areas THEN data.areas[areaName].rows ELSE << >>

\* Attendance.addOrUpdateRow for a live user: the attendance and history
\* documents it leaves, and whether it made a row.
addOrUpdateRow(att, h, username, t, dateStr, areaName, designationLabel) ==
    LET designationKey == normalizeDesignation(designationLabel)
        data == getAttendanceForDate(att, dateStr)
        rows == RowsOf(data, areaName)
        found == RowIndex(rows, designationKey) # 0
        row == [designationKey |-> designationKey,
                designationLabel |-> designationLabel,
                present |-> Null, confirmed |-> FALSE,
                updatedAt |-> Null, updatedBy |-> NoUser]
        rows2 == IF found THEN rows ELSE Append(rows, row)
        data2 == [areas |-> Put(data.areas, areaName, [rows |-> rows2]),
                  audit |-> data.audit,
                  updatedAt |-> t, updatedBy |-> username]
    IN  [attendance |-> saveAttendanceForDate(att, dateStr, data2),
         history |-> IF found THEN h ELSE addToHistory(h, designationLabel, areaName),
         created |-> ~found]

\* The fields of updates that updateRow audits: in updates and different
\* from the stored value.
Audited(row, updates) ==
    {f \in updates.fields : updates[f] # row[f]}

\* Object.assign(row, updates, {updatedAt, updatedBy})
AssignRow(row, updates, t, username) ==
    [row EXCEPT !.present = IF "present" \in updates.fields THEN updates.present ELSE @,
                !.confirmed = IF "confirmed" \in updates.fields THEN updates.confirmed ELSE @,
                !.updatedAt = t,
                !.updatedBy = username]

\* Attendance.updateRow for a live user and an existing row at index i: data
\* is read first (app.js:435); each Audit.addEntry reads, changes and saves
\* the date document on its own; the last save (app.js:455) then stores data,
\* with the row changed, over the whole date document.
updateRow(att, username, t, dateStr, areaName, i, updates) ==
    LET data == getAttendanceForDate(att, dateStr)
        oldRow == data.areas[areaName].rows[i]
        key == oldRow.designationKey
        att1 == IF "present" \in Audited(oldRow, updates)
                THEN addEntry(att, username, t, dateStr, areaName, key,
                              "present", oldRow.present, updates.present)
                ELSE att
        att2 == IF "confirmed" \in Audited(oldRow, updates)
                THEN addEntry(att1, username, t, dateStr, areaName, key,
                              "confirmed", oldRow.confirmed, updates.confirmed)
                ELSE att1
        data2 == [data EXCEPT !.areas[areaName].rows[i] = AssignRow(oldRow, updates, t, username),
                              !.updatedAt = t,
                              !.updatedBy = username]
    IN  saveAttendanceForDate(att2, dateStr, data2)

RemoveAt_DropsTail(list, i) == SubSeq(list, 1, i - 1)

\* rows.splice(idx, 1)
RemoveAt(list, i) == SubSeq(list, 1, i - 1) \o SubSeq(list, i + 1, Len(list))

TotalRows(att) ==
    LET RECURSIVE Sum(_)
        Sum(S) == IF S = {} THEN 0
                  ELSE LET x == CHOOSE y \in S : TRUE
                       IN  Len(RowsOf(att[x[1]], x[2])) + Sum(S \ {x})
    IN  Sum((DOMAIN att) \X AreaNames)

-----------------------------------------------------------------------------
(* Storage, Audit and Attendance of app.js: actions *)

authRest == <<users, pending, fails>>

\* Attendance.addOrUpdateRow
AddOrUpdateRow(dateStr, areaName, designationLabel) ==
    LET r == CurrentUser(session, users, now)
        out == addOrUpdateRow(attendance, history, r.user, now,
                              dateStr, areaName, designationLabel)
    IN  /\ session' = r.session
        /\ UNCHANGED <<now, authRest, areas, changes, legacyVars, screen, settings>>
        /\ IF r.user = NoUser
           THEN /\ last' = [op |-> "addOrUpdateRow", res |-> "undefined", via |-> r.via,
                            arg |-> designationLabel]
                /\ UNCHANGED <<attendance, history>>
           ELSE /\ attendance' = out.attendance
                /\ history' = out.history
                /\ last' = [op |-> "addOrUpdateRow", res |-> "row", via |-> r.via,
                            arg |-> designationLabel]

\* Attendance.updateRow, without the observer's log.
UpdateRowCall(dateStr, areaName, designationKey, updates) ==
    LET r == CurrentUser(session, users, now)
        data == getAttendanceForDate(attendance, dateStr)
        i == RowIndex(RowsOf(data, areaName), designationKey)
    IN  /\ session' = r.session
        /\ UNCHANGED <<now, authRest, areas, history, legacyVars, screen, settings>>
        /\ IF r.user = NoUser
           THEN /\ last' = [op |-> "updateRow", res |-> "undefined", via |-> r.via]
                /\ UNCHANGED attendance
           ELSE IF areaName \notin DOMAIN data.areas
           THEN /\ last' = [op |-> "updateRow", res |-> "undefined", via |-> "noArea"]
                /\ UNCHANGED attendance
           ELSE IF i = 0
           THEN /\ last' = [op |-> "updateRow", res |-> "undefined", via |-> "noRow"]
                /\ UNCHANGED attendance
           ELSE /\ attendance' = updateRow(attendance, r.user, now, dateStr,
                                           areaName, i, updates)
                /\ last' = [op |-> "updateRow", res |-> "undefined", via |-> "saved"]

UpdateRow(dateStr, areaName, designationKey, updates) ==
    /\ UpdateRowCall(dateStr, areaName, designationKey, updates)
    /\ UNCHANGED changes

\* The audit entries updateRow hands to Audit.addEntry, in call order.
AuditCalls(username, t, areaName, oldRow, updates) ==
    (IF "present" \in Audited(oldRow, updates)
     THEN <<AuditEntry(t, username, areaName, oldRow.designationKey,
                       "present", oldRow.present, updates.present)>>
     ELSE << >>)
    \o (IF "confirmed" \in Audited(oldRow, updates)
        THEN <<AuditEntry(t, username, areaName, oldRow.designationKey,
                          "confirmed", oldRow.confirmed, updates.confirmed)>>
        ELSE << >>)

\* Attendance.updateRow, with the observer logging each audited field change.
UpdateRowLogged(dateStr, areaName, designationKey, updates) ==
    LET r == CurrentUser(session, users, now)
        rows == RowsOf(getAttendanceForDate(attendance, dateStr), areaName)
        i == RowIndex(rows, designationKey)
        made == IF r.user = NoUser \/ i = 0 THEN << >>
                ELSE AuditCalls(r.user, now, areaName, rows[i], updates)
    IN  /\ UpdateRowCall(dateStr, areaName, designationKey, updates)
        /\ Len(changes[dateStr]) + Len(made) <= MaxChanges
        /\ changes' = [changes EXCEPT ![dateStr] = @ \o made]

\* Attendance.deleteRow: no session test.
DeleteRow(dateStr, areaName, designationKey) ==
    LET data == getAttendanceForDate(attendance, dateStr)
        i == RowIndex(RowsOf(data, areaName), designationKey)
    IN  /\ UNCHANGED <<now, session, authRest, areas, history, changes, legacyVars, screen, settings>>
        /\ last' = [op |-> "deleteRow", res |-> "undefined",
                    via |-> IF areaName \notin DOMAIN data.areas THEN "noArea"
                            ELSE IF i = 0 THEN "noRow" ELSE "saved"]
        /\ IF areaName \in DOMAIN data.areas /\ i # 0
           THEN attendance' = saveAttendanceForDate(attendance, dateStr,
                    [data EXCEPT !.areas[areaName].rows = RemoveAt(@, i)])
           ELSE UNCHANGED attendance

\* Audit.addEntry called on its own.
AuditAppend(dateStr, areaName, designationKey, field, oldVal, newVal) ==
    LET r == CurrentUser(session, users, now)
    IN  /\ session' = r.session
        /\ UNCHANGED <<now, authRest, areas, history, changes, legacyVars, screen, settings>>
        /\ last' = [op |-> "addEntry", res |-> "undefined", via |-> r.via]
        /\ IF r.user = NoUser
           THEN UNCHANGED attendance
           ELSE /\ Len(getEntries(attendance, dateStr)) < MaxDirectAppends
                /\ attendance' = addEntry(attendance, r.user, now, dateStr, areaName,
                                          designationKey, field, oldVal, newVal)

\* BackupView.importBackup, confirmed, for a backup file that holds only
\* version and settings: the area list, the user list and the attendance
\* are replaced by empty ones, the designation history is kept.  The
\* file's settings are the default ones.
ImportMinimalBackup ==
    /\ settings' = DefaultSettings
    /\ areas' = << >>
    /\ users' = << >>
    /\ attendance' = EmptyMap
    /\ last' = [op |-> "importBackup", res |-> "ok"]
    /\ UNCHANGED <<now, session, pending, fails, history, changes, legacyVars, screen>>

-----------------------------------------------------------------------------
(* The session and lockout state machine *)

NoCall == [op |-> "none", res |-> "none"]

InitRest ==
    /\ areas = DEFAULT_AREAS
    /\ attendance = EmptyMap
    /\ history = EmptyHistory
    /\ changes = [d \in Dates |-> << >>]
    /\ legacy = [areas |-> DEFAULT_AREAS, users |-> InitialUsers, attendance |-> EmptyMap,
                 settings |-> DefaultSettings]
    /\ dialog = NoDialog
    /\ asking = NoAsking
    /\ settings = DefaultSettings
    /\ screen = EmptyMap

Init ==
    /\ now = 0
    /\ session = EmptySession
    /\ users = InitialUsers
    /\ pending = {}
    /\ last = NoCall
    /\ fails = 0
    /\ InitRest

Next ==
    \/ \E u \in Usernames, p \in Passwords : LoginBegin(u, p)
    \/ \E c \in pending : LoginResume(c)
    \/ Logout
    \/ GetCurrentUser
    \/ \E u \in Toggled : ToggleUser(u)
    \/ \E d \in TickSteps : Tick(d)

Spec == Init /\ [][Next]_vars

-----------------------------------------------------------------------------
(* The ledger under a live session: SpecLedger *)

\* The session as a login at time 0 left it.
SessionOf(username) ==
    [currentUser |-> username, expiresAt |-> SESSION_DURATION,
     failedLogin |-> [count |-> 0, cooldownUntil |-> Null]]

\* bob logged in at time 0 and has been working since.
InitLedger ==
    /\ now = 1
    /\ session = SessionOf("bob")
    /\ users = InitialUsers
    /\ pending = {}
    /\ last = NoCall
    /\ fails = 0
    /\ InitRest

\* What the entry screen sends, one field per updateRow call, and two
\* calls other callers can make: both fields at once, and no field.
ScreenUpdates == {u \in Updates : Cardinality(u.fields) = 1}
LedgerUpdates ==
    ScreenUpdates
    \cup {[fields |-> {"present", "confirmed"}, present |-> 3, confirmed |-> TRUE],
          [fields |-> {}, present |-> Null, confirmed |-> FALSE]}

\* Rows are added in one area; updateRow and deleteRow also address the other.
NextLedger ==
    \/ \E d \in Dates, l \in Labels : AddOrUpdateRow(d, "Spool Yard", l)
    \/ \E d \in Dates, a \in AreaNames, k \in Keys, u \in LedgerUpdates :
          UpdateRow(d, a, k, u)
    \/ \E d \in Dates, a \in AreaNames, k \in Keys : DeleteRow(d, a, k)

SpecLedger == InitLedger /\ [][NextLedger]_vars

-----------------------------------------------------------------------------
(* The ledger while sessions end: SpecNoSession *)

\* Either nobody has logged in yet, or bob logged in at time 0 and the
\* session is in its last millisecond.
InitNoSession ==
    /\ \/ now = 0 /\ session = EmptySession
       \/ now = SESSION_DURATION /\ session = SessionOf("bob")
    /\ users = InitialUsers
    /\ pending = {}
    /\ last = NoCall
    /\ fails = 0
    /\ InitRest

NextNoSession ==
    \/ \E d \in Dates, l \in Labels : AddOrUpdateRow(d, "Spool Yard", l)
    \/ \E d \in Dates, a \in AreaNames, k \in Keys :
          UpdateRow(d, a, k, [fields |-> {"present"}, present |-> 3, confirmed |-> FALSE])
    \/ \E d \in Dates : AuditAppend(d, "Spool Yard", <<"w">>, "present", Null, 3)
    \/ Logout
    \/ GetCurrentUser
    \/ \E u \in Toggled : ToggleUser(u)
    \/ ImportMinimalBackup
    \/ Tick(1)

SpecNoSession == InitNoSession /\ [][NextNoSession]_vars

-----------------------------------------------------------------------------
(* The audit trail under repeated edits of one row: SpecAudit *)

\* The entry screen's inputs on one row: a count typed in, the box ticked or
\* cleared.
AuditUpdates == {u \in ScreenUpdates : "present" \in u.fields => u.present # Null}

NextAudit ==
    \/ \E d \in Dates : AddOrUpdateRow(d, "Spool Yard", <<"W">>)
    \/ \E d \in Dates, u \in AuditUpdates :
          UpdateRowLogged(d, "Spool Yard", <<"w">>, u)

SpecAudit == InitLedger /\ [][NextAudit]_vars

-----------------------------------------------------------------------------
(* AdminView of part_001: the area list and what hangs on area names *)

\* The names an admin types or clicks; the first two are the stored list.
LegacyAreaNames == {"Spool Yard", "PWHT", "Spool Yard Renamed"}
LegacyDates == {"2024-05-01", "2024-05-02"}
\* The counts entered on each date.
LegacyEntries == {<<"2024-05-01", 3>>, <<"2024-05-01", 5>>, <<"2024-05-02", 5>>}

authVars == <<now, session, users, pending, fails>>

\* Array.prototype.indexOf, counted from 1: 0 stands for JavaScript's -1.
IndexOf(list, x) ==
    LET hits == {i \in 1..Len(list) : list[i] = x}
    IN  IF hits = {} THEN 0 ELSE CHOOSE i \in hits : \A j \in hits : i <= j

Includes(list, x) == IndexOf(list, x) # 0

\* areas[index] = newName, then saveAreas: with index -1 the assignment
\* makes a property "-1" that JSON.stringify leaves out of the saved array.
renameInList(list, oldName, newName) ==
    LET i == IndexOf(list, oldName)
    IN  IF i = 0 THEN list ELSE [list EXCEPT ![i] = newName]

\* The users.forEach of renameArea.
renameInUsers(us, oldName, newName) ==
    [n \in 1..Len(us) |->
        [us[n] EXCEPT !.assignedAreas = renameInList(@, oldName, newName)]]

renameInAttendance_KeepsOldKey(att, oldName, newName) ==
    [d \in DOMAIN att |->
        IF oldName \in DOMAIN att[d].areas
        THEN [att[d] EXCEPT !.areas = Put(@, newName, att[d].areas[oldName])]
        ELSE att[d]]

\* The Object.keys(allAttendance).forEach of renameArea: every area record is
\* an object, so the test on dayData.areas[oldName] is a test for the key.
renameInAttendance(att, oldName, newName) ==
    [d \in DOMAIN att |->
        IF oldName \in DOMAIN att[d].areas
        THEN [att[d] EXCEPT !.areas =
                [a \in (DOMAIN @ \ {oldName}) \cup {newName} |->
                    IF a = newName THEN att[d].areas[oldName] ELSE att[d].areas[a]]]
        ELSE att[d]]

\* areas.splice(index, 1): with index -1 it takes the last element.
spliceOne(list, i) ==
    IF list = << >> THEN list
    ELSE IF i = 0 THEN SubSeq(list, 1, Len(list) - 1)
    ELSE RemoveAt(list, i)

\* The users.forEach of deleteArea.
deleteInUsers(us, areaName) ==
    [n \in 1..Len(us) |->
        [us[n] EXCEPT !.assignedAreas =
            IF Includes(@, areaName) THEN RemoveAt(@, IndexOf(@, areaName)) ELSE @]]

\* The Add button of showAddAreaModal, with the trimmed name typed in.
LegacyAddArea(areaName) ==
    /\ UNCHANGED <<authVars, ledgerVars, screen, settings, asking, dialog>>
    /\ IF Includes(legacy.areas, areaName)
       THEN /\ last' = [op |-> "addArea", res |-> "Area already exists"]
            /\ UNCHANGED legacy
       ELSE /\ legacy' = [legacy EXCEPT !.areas = Append(@, areaName)]
            /\ last' = [op |-> "addArea", res |-> "added"]

\* The Rename button of an area's table row opens a dialog that keeps the
\* row's name; the stored lists can change while it is open (the store is
\* shared by every tab of the browser).
OpenRename(areaName) ==
    /\ dialog = NoDialog
    /\ Includes(legacy.areas, areaName)
    /\ dialog' = [kind |-> "rename", name |-> areaName]
    /\ UNCHANGED <<authVars, ledgerVars, screen, settings, asking, legacy, last>>

\* The dialog's Cancel button.
CancelRename ==
    /\ dialog # NoDialog
    /\ dialog' = NoDialog
    /\ UNCHANGED <<authVars, ledgerVars, screen, settings, asking, legacy, last>>

RenameConfirm_NoCheck(newName) ==
    LET oldName == dialog.name
    IN  /\ dialog.kind = "rename"
        /\ UNCHANGED <<authVars, ledgerVars, screen, settings, asking>>
        /\ IF newName = oldName
           THEN /\ dialog' = NoDialog
                /\ UNCHANGED <<legacy, last>>
           ELSE /\ legacy' =
                      [areas |-> renameInList(legacy.areas, oldName, newName),
                       users |-> renameInUsers(legacy.users, oldName, newName),
                       attendance |-> renameInAttendance(legacy.attendance, oldName, newName)]
                /\ last' = [op |-> "renameArea", res |-> "renamed", arg |-> <<oldName, newName>>]
                /\ dialog' = NoDialog

\* The Rename button of renameArea's dialog, with the trimmed new name.
RenameConfirm(newName) ==
    LET oldName == dialog.name
    IN  /\ dialog.kind = "rename"
        /\ UNCHANGED <<authVars, ledgerVars, screen, settings, asking>>
        /\ IF newName = oldName
           THEN /\ dialog' = NoDialog
                /\ UNCHANGED <<legacy, last>>
           ELSE IF Includes(legacy.areas, newName)
           THEN /\ last' = [op |-> "renameArea", res |-> "Area name already exists"]
                /\ UNCHANGED <<legacy, dialog>>
           ELSE /\ legacy' =
                      [areas |-> renameInList(legacy.areas, oldName, newName),
                       users |-> renameInUsers(legacy.users, oldName, newName),
                       attendance |-> renameInAttendance(legacy.attendance, oldName, newName)]
                /\ last' = [op |-> "renameArea", res |-> "renamed", arg |-> <<oldName, newName>>]
                /\ dialog' = NoDialog

\* deleteArea confirmed for a row of the area table.
LegacyDeleteArea(areaName) ==
    /\ Includes(legacy.areas, areaName)
    /\ legacy' = [legacy EXCEPT
                    !.areas = spliceOne(@, IndexOf(@, areaName)),
                    !.users = deleteInUsers(@, areaName)]
    /\ last' = [op |-> "deleteArea", res |-> "deleted"]
    /\ UNCHANGED <<authVars, ledgerVars, screen, settings, asking, dialog>>

\* The Save button of the Edit User dialog for a regular user: the checked
\* areas, in the order of the area list.
SaveUserAreas(username, checked) ==
    LET i == FindUser(legacy.users, username)
        InChecked(a) == a \in checked
    IN  /\ i # 0
        /\ legacy.users[i].role = "user"
        /\ legacy' = [legacy EXCEPT !.users[i].assignedAreas =
                                        SelectSeq(legacy.areas, InChecked)]
        /\ last' = [op |-> "editUser", res |-> "User updated"]
        /\ UNCHANGED <<authVars, ledgerVars, screen, settings, asking, dialog>>

\* Attendance.updateArea of part_001 for a live user, setting presentCount on
\* an area of the entry screen.  (Its Audit.addEntry saves the date document
\* first and the last save stores the document read before over it, so the
\* audit list stays as it was read: empty.)
LegacyUpdateArea(username, dateString, areaName, presentCount) ==
    LET att == legacy.attendance
        data == IF dateString \in DOMAIN att THEN att[dateString] ELSE NewDateDoc
        oldData == IF areaName \in DOMAIN data.areas THEN data.areas[areaName]
                   ELSE [presentCount |-> Null, confirmed |-> FALSE,
                         updatedAt |-> Null, updatedBy |-> NoUser]
        newData == [oldData EXCEPT !.presentCount = presentCount,
                                   !.updatedAt = now, !.updatedBy = username]
    IN  /\ Includes(legacy.areas, areaName)
        /\ legacy' = [legacy EXCEPT !.attendance =
                        Put(att, dateString,
                            [data EXCEPT !.areas = Put(@, areaName, newData),
                                         !.updatedAt = now,
                                         !.updatedBy = username])]
        /\ last' = [op |-> "updateArea", res |-> "undefined"]
        /\ UNCHANGED <<authVars, ledgerVars, screen, settings, asking, dialog>>

NextAdmin ==
    \/ \E a \in LegacyAreaNames : LegacyAddArea(a)
    \/ \E a \in LegacyAreaNames : OpenRename(a)
    \/ CancelRename
    \/ \E a \in LegacyAreaNames : RenameConfirm(a)
    \/ \E a \in LegacyAreaNames : LegacyDeleteArea(a)
    \/ \E S \in SUBSET LegacyAreaNames : SaveUserAreas("bob", S)
    \/ \E e \in LegacyEntries, a \in LegacyAreaNames :
          LegacyUpdateArea("alice", e[1], a, e[2])

SpecAdmin == InitLedger /\ [][NextAdmin]_vars

-----------------------------------------------------------------------------
(* Attendance.getAreaTotals over stored row lists: SpecTotals *)

MaxTotalRows == 3

\* typeof v === 'number', for a present field (null or a count).
IsNumber(v) == v # Null

getAreaTotals_SumsNull(att, dateStr, areaName) ==
    LET rows == RowsOf(getAttendanceForDate(att, dateStr), areaName)
        RECURSIVE Reduce(_)
        Reduce(n) == IF n = 0 THEN 0 ELSE Reduce(n - 1) + rows[n].present
        Yes(r) == r.confirmed
    IN  [total |-> Reduce(Len(rows)),
         confirmed |-> Len(SelectSeq(rows, Yes)),
         rows |-> Len(rows)]

\* Attendance.getAreaTotals: getAreaData gives {rows: []} for an area or a
\* date that is not stored; reduce runs over the rows from the first on.
getAreaTotals(att, dateStr, areaName) ==
    LET rows == RowsOf(getAttendanceForDate(att, dateStr), areaName)
        RECURSIVE Reduce(_)
        Reduce(n) == IF n = 0 THEN 0
                     ELSE Reduce(n - 1)
                          + (IF IsNumber(rows[n].present) THEN rows[n].present ELSE 0)
        Yes(r) == r.confirmed
    IN  [total |-> Reduce(Len(rows)),
         confirmed |-> Len(SelectSeq(rows, Yes)),
         rows |-> Len(rows)]

\* The counts and states a stored row can have, and the dates asked for
\* (one of them never stored).
TotalsPresent == {Null, 0, 3, 5}
TotalsDates == Dates \cup {"2024-05-02"}

\* The key of the n-th row of a list: "rx", "rxx", ...
RowKey(n) == <<"r">> \o [j \in 1..n |-> "x"]

\* A row bob has edited: any count or none, confirmed or not.
EditedRow(n, present, confirmed) ==
    [designationKey |-> RowKey(n), designationLabel |-> RowKey(n),
     present |-> present, confirmed |-> confirmed,
     updatedAt |-> 1, updatedBy |-> "bob"]

RowLists ==
    UNION {[1..n -> TotalsPresent \X BOOLEAN] : n \in 0..MaxTotalRows}

\* The store with one date document holding rows in "Spool Yard", or empty.
InitTotals ==
    /\ now = 1
    /\ session = SessionOf("bob")
    /\ users = InitialUsers
    /\ pending = {}
    /\ last = NoCall
    /\ fails = 0
    /\ areas = DEFAULT_AREAS
    /\ history = EmptyHistory
    /\ changes = [d \in Dates |-> << >>]
    /\ legacy = [areas |-> DEFAULT_AREAS, users |-> InitialUsers, attendance |-> EmptyMap,
                 settings |-> DefaultSettings]
    /\ dialog = NoDialog
    /\ asking = NoAsking
    /\ settings = DefaultSettings
    /\ screen = EmptyMap
    /\ \E d \in Dates, f \in RowLists :
          attendance = IF Len(f) = 0 THEN EmptyMap
                       ELSE Put(EmptyMap, d,
                                [areas |-> Put(EmptyMap, "Spool Yard",
                                               [rows |-> [n \in 1..Len(f) |->
                                                   EditedRow(n, f[n][1], f[n][2])]]),
                                 audit |-> << >>,
                                 updatedAt |-> 1, updatedBy |-> "bob"])

\* Attendance.getAreaTotals, as the dashboard and the exports call it.
GetAreaTotals(dateStr, areaName) ==
    /\ last' = [op |-> "getAreaTotals", res |-> getAreaTotals(attendance, dateStr, areaName),
                arg |-> <<dateStr, areaName>>]
    /\ UNCHANGED <<authVars, ledgerVars, legacyVars, screen, settings>>

NextTotals ==
    \E d \in TotalsDates, a \in AreaNames : GetAreaTotals(d, a)

SpecTotals == InitTotals /\ [][NextTotals]_vars

-----------------------------------------------------------------------------
(* Utils.normalizeDesignation over short texts: SpecNormalize *)

MaxTextLen == 4

\* A letter in both cases, a space and a tab.
TextChars == {"W", "w", " ", "\t"}
TextsUpTo(len) == UNION {[1..n -> TextChars] : n \in 0..len}
Texts == TextsUpTo(MaxTextLen)

\* Two labels are about to be normalized.
InitNormalize ==
    /\ now = 1
    /\ session = SessionOf("bob")
    /\ users = InitialUsers
    /\ pending = {}
    /\ fails = 0
    /\ InitRest
    /\ \E a \in Texts, b \in TextsUpTo(MaxTextLen - 1) :
          last = [op |-> "input", res |-> "none", arg |-> <<a, b>>]

\* Utils.normalizeDesignation applied to the two labels, and once more to
\* its own results.
Normalize ==
    /\ last.op = "input"
    /\ last' = [op |-> "normalizeDesignation", arg |-> last.arg,
                res |-> <<normalizeDesignation(last.arg[1]),
                          normalizeDesignation(last.arg[2])>>,
                again |-> <<normalizeDesignation(normalizeDesignation(last.arg[1])),
                            normalizeDesignation(normalizeDesignation(last.arg[2]))>>]
    /\ UNCHANGED <<authVars, ledgerVars, legacyVars, screen, settings>>

NextNormalize == Normalize

SpecNormalize == InitNormalize /\ [][NextNormalize]_vars

-----------------------------------------------------------------------------
(* DesignationMgr.addToHistory past its caps: SpecHistory *)

MaxLabels == 101

Digits == <<"0", "1", "2", "3", "4", "5", "6", "7", "8", "9">>

\* The decimal digits of n.
RECURSIVE DigitsOf(_)
DigitsOf(n) ==
    IF n < 10 THEN <<Digits[n + 1]>>
    ELSE DigitsOf(n \div 10) \o <<Digits[(n % 10) + 1]>>

\* The n-th designation typed in: "W1", "W2", ...
NumLabel(n) == <<"W">> \o DigitsOf(n)

\* The first designation typed again, in another spelling: " w1".
Respelled == <<" ", "w">> \o DigitsOf(1)

\* How many different designations have been recorded.
HistoryCount == IF last.op \in {"addToHistory", "getSuggestions"} THEN last.n ELSE 0

\* DesignationMgr.addToHistory
RecordUsage(designationLabel, areaName, n) ==
    /\ history' = addToHistory(history, designationLabel, areaName)
    /\ last' = [op |-> "addToHistory", res |-> "undefined",
                arg |-> <<designationLabel, areaName>>, n |-> n]
    /\ UNCHANGED <<authVars, areas, attendance, changes, legacyVars, screen, settings>>

\* A designation not used before is recorded.
RecordFresh(limit, areaName) ==
    /\ HistoryCount < limit
    /\ RecordUsage(NumLabel(HistoryCount + 1), areaName, HistoryCount + 1)

\* The first designation is recorded again under its other spelling.
RecordAgain(areaName) ==
    /\ HistoryCount >= 1
    /\ RecordUsage(Respelled, areaName, HistoryCount)

\* New designations are recorded in one area, the repeated one in the other.
NextHistory ==
    \/ RecordFresh(MaxLabels, "Spool Yard")
    \/ RecordAgain("PWHT")

SpecHistory == InitLedger /\ [][NextHistory]_vars

-----------------------------------------------------------------------------
(* DesignationMgr.getSuggestions over recorded designations: SpecSuggest *)

MaxSuggestLabels == 6

\* String.prototype.includes
Contains(text, part) ==
    \E i \in 0..(Len(text) - Len(part)) : SubSeq(text, i + 1, i + Len(part)) = part

\* DesignationMgr.getSuggestions on the history document it has read, for an
\* area name that is not empty.
getSuggestions(h, partial, areaName) ==
    LET norm == normalizeDesignation(partial)
        Matches(d) == Contains(normalizeDesignation(d), norm)
        fromArea == IF areaName \in DOMAIN h.byArea
                    THEN SelectSeq(h.byArea[areaName], Matches)
                    ELSE << >>
        NewMatch(d) == Matches(d) /\ ~Includes(fromArea, d)
    IN  IF Len(fromArea) < 5
        THEN Slice(fromArea \o SelectSeq(h.global, NewMatch), 5)
        ELSE fromArea

\* What is typed into the designation input.
Partials == { <<"w">>, <<"1">>, <<"F">> }

\* The input handler of the designation field: DesignationMgr.getSuggestions.
GetSuggestions(partial, areaName) ==
    /\ last' = [op |-> "getSuggestions",
                res |-> getSuggestions(history, partial, areaName),
                arg |-> <<partial, areaName>>, n |-> HistoryCount]
    /\ UNCHANGED <<authVars, ledgerVars, legacyVars, screen, settings>>

NextSuggest ==
    \/ \E a \in AreaNames : RecordFresh(MaxSuggestLabels, a)
    \/ RecordAgain("PWHT")
    \/ \E p \in Partials, a \in AreaNames : GetSuggestions(p, a)

SpecSuggest == InitLedger /\ [][NextSuggest]_vars

-----------------------------------------------------------------------------
(* EntryView of app.js: the entry screen and its handlers: SpecEntry *)

\* The one date the screen shows.
EntryDate == "2024-05-01"
EntryLabels == { <<"W">>, <<"F">> }
\* What is typed into a Present field: nothing (saved as null), 0 or 3.
EntryPresent == {Null, 0, 3}

\* user.role === 'admin' ? Storage.getAreas() : user.assignedAreas
VisibleAreas(us, areaList, username) ==
    LET i == FindUser(us, username)
    IN  IF us[i].role = "admin" THEN areaList ELSE us[i].assignedAreas

\* What EntryView.render leaves on the screen: for every area card, the row
\* objects its handlers hold (key and present as read at the render) and
\* whether each row's checkbox is ticked.
renderRows(att, areaList, dateStr) ==
    [a \in {areaList[i] : i \in 1..Len(areaList)} |->
        LET rows == RowsOf(getAttendanceForDate(att, dateStr), a)
        IN  [n \in 1..Len(rows) |->
                [designationKey |-> rows[n].designationKey,
                 present |-> rows[n].present,
                 checked |-> rows[n].confirmed]]]

\* Attendance.updateRow for a live user: nothing is written when the area or
\* the row is not stored.
updateRowByKey(att, username, t, dateStr, areaName, designationKey, updates) ==
    LET data == getAttendanceForDate(att, dateStr)
        i == RowIndex(RowsOf(data, areaName), designationKey)
    IN  IF areaName \notin DOMAIN data.areas \/ i = 0 THEN att
        ELSE updateRow(att, username, t, dateStr, areaName, i, updates)

OnlyConfirmed == [fields |-> {"confirmed"}, present |-> Null, confirmed |-> TRUE]

confirmable_AlsoBlank(row) == ~row.confirmed

\* The test of EntryView.confirmAll on a row (present is never '' in the
\* store: the Present handler saves null for an empty input).
confirmable(row) == ~row.confirmed /\ row.present # Null

\* The inner forEach of EntryView.confirmAll over the first n of the rows it
\* read for the area: the attendance it leaves and the rows it counted.
RECURSIVE confirmRows(_, _, _, _, _, _, _)
confirmRows(att, username, t, dateStr, areaName, rows, n) ==
    IF n = 0 THEN [attendance |-> att, count |-> 0]
    ELSE LET done == confirmRows(att, username, t, dateStr, areaName, rows, n - 1)
         IN  IF confirmable(rows[n])
             THEN [attendance |-> updateRowByKey(done.attendance, username, t, dateStr,
                                                 areaName, rows[n].designationKey,
                                                 OnlyConfirmed),
                   count |-> done.count + 1]
             ELSE done

\* The outer forEach of EntryView.confirmAll over the first k areas: each
\* area's rows are read when its turn comes.
RECURSIVE confirmAreas(_, _, _, _, _, _)
confirmAreas(att, username, t, dateStr, areaList, k) ==
    IF k = 0 THEN [attendance |-> att, count |-> 0]
    ELSE LET done == confirmAreas(att, username, t, dateStr, areaList, k - 1)
             rows == RowsOf(getAttendanceForDate(done.attendance, dateStr), areaList[k])
             here == confirmRows(done.attendance, username, t, dateStr,
                                 areaList[k], rows, Len(rows))
         IN  [attendance |-> here.attendance, count |-> done.count + here.count]

entryRest == <<now, authRest, areas, changes, legacy, dialog, asking, settings>>

\* EntryView.render, when the entry view is opened.
EntryRender ==
    LET r == CurrentUser(session, users, now)
    IN  /\ session' = r.session
        /\ screen' = IF r.user = NoUser THEN screen
                     ELSE renderRows(attendance, VisibleAreas(users, areas, r.user), EntryDate)
        /\ last' = [op |-> "render", res |-> "undefined", via |-> r.via]
        /\ UNCHANGED <<entryRest, attendance, history>>

\* Enter in the designation input of an area card: addOrUpdateRow, then
\* render.
EntryAddRow(areaName, designationLabel) ==
    LET r == CurrentUser(session, users, now)
        out == addOrUpdateRow(attendance, history, r.user, now,
                              EntryDate, areaName, designationLabel)
    IN  /\ areaName \in DOMAIN screen
        /\ session' = r.session
        /\ UNCHANGED entryRest
        /\ IF r.user = NoUser
           THEN /\ UNCHANGED <<attendance, history, screen>>
                /\ last' = [op |-> "addRow", res |-> "undefined", via |-> r.via]
           ELSE /\ attendance' = out.attendance
                /\ history' = out.history
                /\ screen' = renderRows(out.attendance,
                                        VisibleAreas(users, areas, r.user), EntryDate)
                /\ last' = [op |-> "addRow", res |-> "undefined", via |-> r.via]

\* The change handler of a row's Present input: updateRow with the row's
\* key; the screen is not rendered again.
PresentChange(areaName, n, val) ==
    /\ areaName \in DOMAIN screen
    /\ n \in 1..Len(screen[areaName])
    /\ UpdateRow(EntryDate, areaName, screen[areaName][n].designationKey,
                 [fields |-> {"present"}, present |-> val, confirmed |-> FALSE])

\* The change handler of a row's Confirm checkbox, after the click has
\* flipped the box: a box now ticked on a row whose present was null at the
\* render is cleared again with a warning; otherwise updateRow with the
\* state of the box.  The screen is not rendered again.
ConfirmClick(areaName, n) ==
    LET r == CurrentUser(session, users, now)
        row == screen[areaName][n]
        checked == ~row.checked
    IN  /\ areaName \in DOMAIN screen
        /\ n \in 1..Len(screen[areaName])
        /\ UNCHANGED <<entryRest, history>>
        /\ IF checked /\ row.present = Null
           THEN /\ last' = [op |-> "confirmClick", res |-> "warning", via |-> "blank",
                            arg |-> <<areaName, row.designationKey>>]
                /\ UNCHANGED <<session, attendance, screen>>
           ELSE /\ session' = r.session
                /\ attendance' =
                      IF r.user = NoUser THEN attendance
                      ELSE updateRowByKey(attendance, r.user, now, EntryDate, areaName,
                                          row.designationKey,
                                          [fields |-> {"confirmed"}, present |-> Null,
                                           confirmed |-> checked])
                /\ screen' = [screen EXCEPT ![areaName][n].checked = checked]
                /\ last' = [op |-> "confirmClick", res |-> "Saved", via |-> r.via,
                            arg |-> <<areaName, row.designationKey>>]

\* EntryView.confirmAll: the Confirm All Valid button; the toast shows the
\* count.
ConfirmAll ==
    LET r == CurrentUser(session, users, now)
        list == VisibleAreas(users, areas, r.user)
        out == confirmAreas(attendance, r.user, now, EntryDate, list, Len(list))
    IN  /\ session' = r.session
        /\ UNCHANGED <<entryRest, history>>
        /\ IF r.user = NoUser
           THEN /\ UNCHANGED <<attendance, screen>>
                /\ last' = [op |-> "confirmAll", res |-> Null, via |-> r.via]
           ELSE /\ attendance' = out.attendance
                /\ screen' = renderRows(out.attendance, list, EntryDate)
                /\ last' = [op |-> "confirmAll", res |-> out.count, via |-> r.via]

\* What alice, the admin, left behind at time 0: a row "W" with 3 present in
\* "PWHT", not confirmed.
AliceLeft ==
    LET added == addOrUpdateRow(EmptyMap, EmptyHistory, "alice", 0,
                                EntryDate, "PWHT", <<"W">>)
    IN  [attendance |-> updateRow(added.attendance, "alice", 0, EntryDate, "PWHT", 1,
                                  [fields |-> {"present"}, present |-> 3,
                                   confirmed |-> FALSE]),
         history |-> added.history]

\* alice is logged in on an empty ledger, or bob after alice has left.
InitEntry ==
    /\ now = 1
    /\ users = InitialUsers
    /\ pending = {}
    /\ last = NoCall
    /\ fails = 0
    /\ areas = DEFAULT_AREAS
    /\ changes = [d \in Dates |-> << >>]
    /\ legacy = [areas |-> DEFAULT_AREAS, users |-> InitialUsers, attendance |-> EmptyMap,
                 settings |-> DefaultSettings]
    /\ dialog = NoDialog
    /\ asking = NoAsking
    /\ settings = DefaultSettings
    /\ screen = EmptyMap
    /\ \/ /\ session = SessionOf("alice")
          /\ attendance = EmptyMap
          /\ history = EmptyHistory
       \/ /\ session = SessionOf("bob")
          /\ attendance = AliceLeft.attendance
          /\ history = AliceLeft.history

NextEntry ==
    \/ EntryRender
    \/ \E l \in EntryLabels : EntryAddRow("Spool Yard", l)
    \/ EntryAddRow("PWHT", <<"W">>)
    \/ \E a \in AreaNames, n \in 1..2, v \in EntryPresent : PresentChange(a, n, v)
    \/ \E a \in AreaNames, n \in 1..2 : ConfirmClick(a, n)
    \/ ConfirmAll

SpecEntry == InitEntry /\ [][NextEntry]_vars

-----------------------------------------------------------------------------
(* Claims about the session and lockout state machine (Spec) *)

Locked == IsLockedOut(session, now)

CorrectCredentials(username, password) ==
    LET i == FindUser(users, username)
    IN  /\ i # 0
        /\ ~users[i].disabled
        /\ hashPassword(password, users[i].salt) = users[i].passwordHash

\* C1: the step that makes the 5th (or a later) failed credential check in a
\* row arms the lockout for LOCKOUT_DURATION from that moment, and from then
\* on every login call made while now < cooldownUntil, whatever its
\* credentials, fails with AccountLocked and leaves the session, so also
\* currentUser, as it was.
C1_LockoutRejectsEveryLogin ==
    [][ /\ (fails' = fails + 1 /\ fails' >= MAX_LOGIN_ATTEMPTS)
            => session'.failedLogin.cooldownUntil = now + LOCKOUT_DURATION
        /\ \A u \in Usernames, p \in Passwords :
            (LoginBegin(u, p) /\ fails >= MAX_LOGIN_ATTEMPTS
                /\ session.failedLogin.cooldownUntil # Null
                /\ now < session.failedLogin.cooldownUntil)
            => /\ last' = [op |-> "login", res |-> "AccountLocked"]
               /\ session' = session
               /\ pending' = pending ]_vars

\* A login was refused as locked although 5 checks failed in a row and the
\* credentials on offer (alice's) are right.
C1_Witness ==
    /\ last = [op |-> "login", res |-> "AccountLocked"]
    /\ fails >= MAX_LOGIN_ATTEMPTS
    /\ Locked
    /\ CorrectCredentials("alice", "pw1")
    /\ session.currentUser = NoUser

\* C5: getCurrentUser on a session that has a currentUser and now > expiresAt
\* returns none and clears currentUser and expiresAt; called on a session
\* without currentUser (so also right after that) it returns none and
\* leaves the session as it is.
C5_ExpiredSessionIsCleared ==
    [][ GetCurrentUser =>
        /\ (session.currentUser # NoUser /\ now > session.expiresAt)
            => /\ last'.res = NoUser
               /\ session'.currentUser = NoUser
               /\ session'.expiresAt = Null
               /\ session'.failedLogin = session.failedLogin
        /\ session.currentUser = NoUser
            => (last'.res = NoUser /\ session' = session) ]_vars

C5_Witness ==
    /\ last = [op |-> "getCurrentUser", res |-> NoUser, via |-> "expired"]
    /\ session.currentUser = NoUser
    /\ session.expiresAt = Null
    /\ now > SESSION_DURATION

\* C6: a login call that got past the lockout test, found an enabled user and
\* whose password hash matches persists exactly currentUser = its username,
\* expiresAt = the time of the success + SESSION_DURATION, failedLogin = {0, null}.
C6_SuccessfulLoginSession ==
    [][ \A c \in pending :
        (LoginResume(c) /\ hashPassword(c.password, c.salt) = c.passwordHash)
        => /\ session' = [currentUser |-> c.username,
                          expiresAt |-> now + SESSION_DURATION,
                          failedLogin |-> [count |-> 0, cooldownUntil |-> Null]]
           /\ last' = [op |-> "login", res |-> "ok"] ]_vars

\* A success that wiped a non-zero failure count is visible: the session is
\* fresh and the time is past the first millisecond.
C6_Witness ==
    /\ last = [op |-> "login", res |-> "ok"]
    /\ session.currentUser = "bob"
    /\ session.expiresAt = now + SESSION_DURATION
    /\ now > 0

\* C7: once the cooldown has elapsed (cooldownUntil set, now >= cooldownUntil)
\* a login call with the correct credentials of an enabled user is admitted
\* to the password check, and when it completes it succeeds and leaves
\* failedLogin.count = 0.
C7_LockoutEnds ==
    [][ /\ \A u \in Usernames, p \in Passwords :
            (LoginBegin(u, p) /\ CorrectCredentials(u, p)
                /\ session.failedLogin.cooldownUntil # Null
                /\ now >= session.failedLogin.cooldownUntil)
            => \E c \in pending' :
                  c.username = u /\ c.password = p /\ c.afterLockout
        /\ \A c \in pending :
            (LoginResume(c) /\ c.afterLockout
                /\ hashPassword(c.password, c.salt) = c.passwordHash)
            => /\ last' = [op |-> "login", res |-> "ok"]
               /\ session'.currentUser = c.username
               /\ session'.failedLogin.count = 0 ]_vars

\* A correct login is waiting for its hash, admitted after a lockout ended.
C7_Witness ==
    \E c \in pending :
        /\ c.afterLockout
        /\ hashPassword(c.password, c.salt) = c.passwordHash
        /\ session.failedLogin.count >= MAX_LOGIN_ATTEMPTS
        /\ now >= session.failedLogin.cooldownUntil

FailedCheck(sess, t, sess2, res) ==
    /\ res = [op |-> "login", res |-> "InvalidCredentials"]
    /\ sess2.failedLogin.count = sess.failedLogin.count + 1
    /\ sess2.currentUser = sess.currentUser
    /\ sess2.expiresAt = sess.expiresAt
    /\ sess2.failedLogin.count = MAX_LOGIN_ATTEMPTS
        => sess2.failedLogin.cooldownUntil = t + LOCKOUT_DURATION
    /\ sess2.failedLogin.count < MAX_LOGIN_ATTEMPTS
        => sess2.failedLogin.cooldownUntil = Null

\* C8: a login call that is past the lockout test and fails on an unknown
\* username or on a password mismatch adds exactly 1 to the one
\* failedLogin.count of the persisted session, whatever the username, and
\* fails with InvalidCredentials; cooldownUntil is now + LOCKOUT_DURATION when
\* the count reaches 5 and stays null while the count is below 5.
C8_FailedCheckCounts ==
    [][ /\ \A u \in Usernames, p \in Passwords :
            (LoginBegin(u, p) /\ ~IsLockedOut(session, now)
                /\ FindUser(users, u) = 0)
            => FailedCheck(session, now, session', last')
        /\ \A c \in pending :
            (LoginResume(c) /\ hashPassword(c.password, c.salt) # c.passwordHash)
            => FailedCheck(session, now, session', last') ]_vars

\* The 5th failure in a row has just armed the lockout.
C8_Witness ==
    /\ last = [op |-> "login", res |-> "InvalidCredentials"]
    /\ session.failedLogin.count = MAX_LOGIN_ATTEMPTS
    /\ session.failedLogin.cooldownUntil = now + LOCKOUT_DURATION

-----------------------------------------------------------------------------
(* Claims about the ledger *)

Reverse(list) == [i \in 1..Len(list) |-> list[Len(list) + 1 - i]]

\* C2: once 11 audited field changes have been made on a date, read(date)
\* returns exactly 10 entries, the 10 most recent changes, newest first,
\* without the very first change.
C2_AuditKeepsLastTen ==
    \A d \in Dates :
        Len(changes[d]) = 11
        => getEntries(attendance, d) = Reverse(SubSeq(changes[d], 2, 11))

LiveSession == CurrentUser(session, users, now).user # NoUser

\* C3: updateRow with a live session on an existing row leaves in read(date)
\* exactly one new entry for each field of updates that differs from the
\* stored value (from = old value, to = new value, user = session user), in
\* front of the entries that were there, and none for any other field; and
\* the row holds the new values.
C3_UpdateRowAudits ==
    [][ \A d \in Dates, a \in AreaNames, k \in Keys, u \in Updates :
        LET rows == RowsOf(getAttendanceForDate(attendance, d), a)
            i == RowIndex(rows, k)
            made == AuditCalls(session.currentUser, now, a, rows[i], u)
            row2 == RowsOf(getAttendanceForDate(attendance', d), a)[i]
        IN  (UpdateRow(d, a, k, u) /\ LiveSession /\ i # 0)
            => /\ getEntries(attendance', d)
                    = Slice(Reverse(made) \o getEntries(attendance, d), MAX_AUDIT_ENTRIES)
               /\ "present" \in u.fields => row2.present = u.present
               /\ "confirmed" \in u.fields => row2.confirmed = u.confirmed ]_vars

KeysUnique ==
    \A d \in DOMAIN attendance, a \in AreaNames :
        LET rows == RowsOf(attendance[d], a)
        IN  \A i, j \in 1..Len(rows) :
                rows[i].designationKey = rows[j].designationKey => i = j

\* C4: with a live session, addOrUpdateRow(date, area, label) leaves exactly
\* one row with the key normalize(label) in that area+date; if a row with
\* that key was there (added under any label with the same key, whatever
\* happened to it since) no row of the area changes, so its present,
\* confirmed and designationLabel are kept; a row the call creates is
\* appended with present = null and confirmed = false.  No area+date ever
\* holds two rows with one key.
C4_AddOrUpdateRowIdempotent ==
    [][ /\ KeysUnique'
        /\ \A d \in Dates, a \in AreaNames, l \in Labels :
           LET key == normalizeDesignation(l)
               before == RowsOf(getAttendanceForDate(attendance, d), a)
               after == RowsOf(getAttendanceForDate(attendance', d), a)
               had == \E i \in 1..Len(before) : before[i].designationKey = key
           IN  (AddOrUpdateRow(d, a, l) /\ LiveSession)
               => /\ Cardinality({i \in 1..Len(after) : after[i].designationKey = key}) = 1
                  /\ had => after = before
                  /\ ~had =>
                       /\ Len(after) = Len(before) + 1
                       /\ SubSeq(after, 1, Len(before)) = before
                       /\ after[Len(after)].designationKey = key
                       /\ after[Len(after)].designationLabel = l
                       /\ after[Len(after)].present = Null
                       /\ after[Len(after)].confirmed = FALSE ]_vars

\* The row was added as "W", filled in and confirmed; the call that has just
\* returned re-added it under another spelling of the same key.
C4_Witness ==
    /\ last = [op |-> "addOrUpdateRow", res |-> "row", via |-> "live",
               arg |-> <<" ", "w", "\t">>]
    /\ \E d \in DOMAIN attendance :
        LET rows == RowsOf(attendance[d], "Spool Yard")
        IN  \E i \in 1..Len(rows) :
                /\ rows[i].designationLabel = <<"W">>
                /\ rows[i].present = 3
                /\ rows[i].confirmed

\* No live session, written out: no currentUser, or the session expired, or
\* its user is not in the user list, or is disabled.
NoLiveSession ==
    LET i == FindUser(users, session.currentUser)
    IN  \/ session.currentUser = NoUser
        \/ session.expiresAt # Null /\ now > session.expiresAt
        \/ i = 0
        \/ users[i].disabled

LedgerUntouched ==
    /\ attendance' = attendance
    /\ history' = history
    /\ last'.res = "undefined"

\* C9: without a live session addOrUpdateRow, updateRow and the audit append
\* return (undefined) and leave the attendance documents and the designation
\* history as they were; with a live session updateRow does so too when the
\* area or the row it addresses does not exist.
C9_NoSessionNoChange ==
    [][ /\ \A d \in Dates, a \in AreaNames, l \in Labels :
            (AddOrUpdateRow(d, a, l) /\ NoLiveSession) => LedgerUntouched
        /\ \A d \in Dates, a \in AreaNames, k \in Keys, u \in Updates :
            LET data == getAttendanceForDate(attendance, d)
            IN  (UpdateRow(d, a, k, u)
                    /\ \/ NoLiveSession
                       \/ a \notin DOMAIN data.areas
                       \/ \A i \in 1..Len(RowsOf(data, a)) :
                              RowsOf(data, a)[i].designationKey # k)
                => LedgerUntouched
        /\ \A d \in Dates, a \in AreaNames, k \in Keys :
            (AuditAppend(d, a, k, "present", Null, 3) /\ NoLiveSession)
                => LedgerUntouched ]_vars

\* A ledger call has just returned on a dead session while a row was stored.
C9_Witness ==
    /\ last.op \in {"addOrUpdateRow", "updateRow", "addEntry"}
    /\ last.via \in {"expired", "userGone"}
    /\ NoLiveSession
    /\ TotalRows(attendance) > 0

-----------------------------------------------------------------------------
(* Claims about the area list (SpecAdmin) *)

Range(list) == {list[i] : i \in 1..Len(list)}

\* C10: renaming area A of the area list to a name B that is not in the list
\* puts B at A's position and leaves no A in the list, leaves every other
\* position as it was; every user whose assignedAreas contained A has B
\* there instead and no A; and in every date's attendance map the record
\* stored under A is stored, unchanged, under B, and the key A is gone.
C10_RenamePropagates ==
    [][ \A B \in LegacyAreaNames :
        LET A == dialog.name
            i == IndexOf(legacy.areas, A)
        IN  (RenameConfirm(B) /\ B # A /\ i # 0 /\ ~Includes(legacy.areas, B))
            => /\ Len(legacy'.areas) = Len(legacy.areas)
               /\ legacy'.areas[i] = B
               /\ A \notin Range(legacy'.areas)
               /\ \A j \in 1..Len(legacy.areas) :
                      j # i => legacy'.areas[j] = legacy.areas[j]
               /\ \A n \in 1..Len(legacy.users) :
                      IF A \in Range(legacy.users[n].assignedAreas)
                      THEN /\ B \in Range(legacy'.users[n].assignedAreas)
                           /\ A \notin Range(legacy'.users[n].assignedAreas)
                      ELSE legacy'.users[n] = legacy.users[n]
               /\ DOMAIN legacy'.attendance = DOMAIN legacy.attendance
               /\ \A d \in DOMAIN legacy.attendance :
                      LET old == legacy.attendance[d].areas
                          new == legacy'.attendance[d].areas
                      IN  A \in DOMAIN old
                          => /\ B \in DOMAIN new
                             /\ new[B] = old[A]
                             /\ A \notin DOMAIN new ]_vars

\* "Spool Yard" has just been renamed: the new name is in the list, bob is
\* assigned to it, and both dates hold a record under it, with different
\* counts, and none under the old name.
C10_Witness ==
    /\ last = [op |-> "renameArea", res |-> "renamed",
               arg |-> <<"Spool Yard", "Spool Yard Renamed">>]
    /\ legacy.areas # << >>
    /\ legacy.areas[1] = "Spool Yard Renamed"
    /\ "Spool Yard Renamed" \in Range(legacy.users[2].assignedAreas)
    /\ DOMAIN legacy.attendance = LegacyDates
    /\ \A d \in LegacyDates :
        /\ "Spool Yard Renamed" \in DOMAIN legacy.attendance[d].areas
        /\ "Spool Yard" \notin DOMAIN legacy.attendance[d].areas
    /\ legacy.attendance["2024-05-01"].areas["Spool Yard Renamed"].presentCount = 3
    /\ legacy.attendance["2024-05-02"].areas["Spool Yard Renamed"].presentCount = 5

-----------------------------------------------------------------------------
(* Claims about the totals (SpecTotals) *)

\* The rows getAreaTotals was last asked about.
AskedRows ==
    RowsOf(getAttendanceForDate(attendance, last.arg[1]), last.arg[2])

SumOver(rows, S) ==
    LET RECURSIVE Sum(_)
        Sum(T) == IF T = {} THEN 0
                  ELSE LET i == CHOOSE j \in T : TRUE
                       IN  rows[i].present + Sum(T \ {i})
    IN  Sum(S)

\* C11: getAreaTotals(date, area) returns total = the sum of present over the
\* rows whose present is a number (a null row adds 0), confirmed = the
\* number of confirmed rows, rows = the number of rows; the rows
\* [3 confirmed, null unconfirmed, 5 confirmed] give {8, 2, 3}; an area or a
\* date that is not stored gives {0, 0, 0}.
C11_AreaTotals ==
    last.op = "getAreaTotals" =>
        LET rows == AskedRows
            numbered == {i \in 1..Len(rows) : rows[i].present # Null}
        IN  /\ last.res.total = SumOver(rows, numbered)
            /\ last.res.confirmed = Cardinality({i \in 1..Len(rows) : rows[i].confirmed})
            /\ last.res.rows = Len(rows)
            /\ (/\ Len(rows) = 3
                /\ rows[1].present = 3 /\ rows[1].confirmed
                /\ rows[2].present = Null /\ ~rows[2].confirmed
                /\ rows[3].present = 5 /\ rows[3].confirmed)
               => last.res = [total |-> 8, confirmed |-> 2, rows |-> 3]
            /\ (\/ last.arg[1] \notin DOMAIN attendance
                \/ last.arg[2] \notin DOMAIN attendance[last.arg[1]].areas)
               => last.res = [total |-> 0, confirmed |-> 0, rows |-> 0]

\* The totals of the rows [3 confirmed, null unconfirmed, 5 confirmed] have
\* just been returned.
C11_Witness ==
    /\ last.op = "getAreaTotals"
    /\ Len(AskedRows) = 3
    /\ AskedRows[1].present = 3 /\ AskedRows[1].confirmed
    /\ AskedRows[2].present = Null /\ ~AskedRows[2].confirmed
    /\ AskedRows[3].present = 5 /\ AskedRows[3].confirmed
    /\ last.res.total = 8

-----------------------------------------------------------------------------
(* More claims about the session (Spec, SpecNoSession) *)

\* C12: logout, called from the button or by getCurrentUser on a session it
\* gives up, sets currentUser and expiresAt to null and leaves
\* failedLogin.count and failedLogin.cooldownUntil as they were, so a lockout
\* in effect before it is in effect after it.
C12_LogoutKeepsFailedLogin ==
    [][ (Logout \/ (GetCurrentUser /\ last'.via \in {"expired", "userGone"}))
        => /\ session'.currentUser = NoUser
           /\ session'.expiresAt = Null
           /\ session'.failedLogin.count = session.failedLogin.count
           /\ session'.failedLogin.cooldownUntil = session.failedLogin.cooldownUntil
           /\ Locked => IsLockedOut(session', now') ]_vars

\* A logout has just happened during a lockout, which is still in effect.
C12_Witness ==
    /\ last = [op |-> "logout", res |-> "ok"]
    /\ Locked
    /\ session.failedLogin.count >= MAX_LOGIN_ATTEMPTS
    /\ session.currentUser = NoUser

\* C13: when the session's currentUser names a user that is not in the user
\* list or is disabled, getCurrentUser returns none and sets currentUser and
\* expiresAt to null; when the session has not expired and its user is in
\* the list and enabled, it returns that user and leaves the session as it
\* is.
C13_MissingOrDisabledUser ==
    [][ GetCurrentUser =>
        LET i == FindUser(users, session.currentUser)
        IN  /\ (session.currentUser # NoUser /\ (i = 0 \/ users[i].disabled))
                => /\ last'.res = NoUser
                   /\ session'.currentUser = NoUser
                   /\ session'.expiresAt = Null
            /\ (session.currentUser # NoUser /\ now <= session.expiresAt
                    /\ i # 0 /\ ~users[i].disabled)
                => /\ last'.res = session.currentUser
                   /\ session' = session ]_vars

\* getCurrentUser has just given up the session of a user that an import
\* dropped from the user list while the ledger held that user's rows.
C13_Witness ==
    /\ last = [op |-> "getCurrentUser", res |-> NoUser, via |-> "userGone"]
    /\ users = << >>
    /\ session.currentUser = NoUser
    /\ session.expiresAt = Null

\* C14: a login call for a user that is in the user list and disabled, made
\* while no lockout is in effect, fails with AccountDisabled whatever the
\* password, leaves failedLogin.count, cooldownUntil and currentUser (the
\* whole session) as they were, and leaves no suspended call behind that
\* could set currentUser later.
C14_DisabledLoginNotCounted ==
    [][ \A u \in Usernames, p \in Passwords :
        LET i == FindUser(users, u)
        IN  (LoginBegin(u, p) /\ ~Locked /\ i # 0 /\ users[i].disabled)
            => /\ last' = [op |-> "login", res |-> "AccountDisabled"]
               /\ session' = session
               /\ pending' = pending
               /\ fails' = fails ]_vars

\* A login for bob, disabled, has just been refused with failures already on
\* the count and no lockout in effect.
C14_Witness ==
    /\ last = [op |-> "login", res |-> "AccountDisabled"]
    /\ users[FindUser(users, "bob")].disabled
    /\ ~Locked
    /\ session.failedLogin.count = MAX_LOGIN_ATTEMPTS - 1
    /\ session.currentUser = NoUser

\* The user record a suspended call read is the one the list holds now.
SameRecord(call) ==
    LET i == FindUser(users, call.username)
    IN  /\ i # 0
        /\ ~users[i].disabled
        /\ users[i].salt = call.salt
        /\ users[i].passwordHash = call.passwordHash

\* C15: from one and the same state (session, user list, clock), a login with
\* a username that is not in the user list and a login with the username of
\* an enabled user and a wrong password end with the same error and leave
\* the same session document.  The two failing paths of the login steps are
\* the ones compared: the step that fails on the lookup, and the step that
\* fails on the hash after the await, each do what the uninterrupted call
\* does from the state they act on.
C15_NoCredentialLeak ==
    /\ [](\A u1 \in Usernames, u2 \in Usernames, p1 \in Passwords, p2 \in Passwords :
            (/\ FindUser(users, u1) = 0
             /\ FindUser(users, u2) # 0
             /\ ~users[FindUser(users, u2)].disabled
             /\ ~CorrectCredentials(u2, p2))
            => LoginOutcome(session, users, now, u1, p1)
                 = LoginOutcome(session, users, now, u2, p2))
    /\ [][ /\ \A u \in Usernames, p \in Passwords :
               (LoginBegin(u, p) /\ FindUser(users, u) = 0)
               => [res |-> last'.res, session |-> session']
                    = LoginOutcome(session, users, now, u, p)
           /\ \A c \in pending :
               (LoginResume(c) /\ SameRecord(c) /\ ~Locked)
               => [res |-> last'.res, session |-> session']
                    = LoginOutcome(session, users, now, c.username, c.password) ]_vars

\* A login has just failed on its credentials, four failures are counted, no
\* lockout is in effect, bob is enabled and mallory is unknown: either kind
\* of wrong credentials now arms the lockout with the same error.
C15_Witness ==
    /\ last = [op |-> "login", res |-> "InvalidCredentials"]
    /\ session.failedLogin.count = MAX_LOGIN_ATTEMPTS - 1
    /\ ~Locked
    /\ FindUser(users, "mallory") = 0
    /\ ~users[FindUser(users, "bob")].disabled
    /\ LoginOutcome(session, users, now, "bob", "pw1").session.failedLogin.cooldownUntil
         = now + LOCKOUT_DURATION
    /\ LoginOutcome(session, users, now, "mallory", "pw1").res = "InvalidCredentials"

-----------------------------------------------------------------------------
(* Claims about designations (SpecNormalize, SpecHistory, SpecSuggest) *)

\* The words of a text: its maximal runs of characters that are not
\* whitespace, in order.
RECURSIVE Words(_)
Words(text) ==
    IF text = << >> THEN << >>
    ELSE IF Head(text) \in {" ", "\t"} THEN Words(Tail(text))
    ELSE LET stops == {i \in 1..Len(text) : text[i] \in {" ", "\t"}}
             n == IF stops = {} THEN Len(text)
                  ELSE (CHOOSE i \in stops : \A j \in stops : i <= j) - 1
         IN  <<SubSeq(text, 1, n)>> \o Words(SubSeq(text, n + 1, Len(text)))

\* The same letter in either case.
SameLetter(c, d) == c = d \/ {c, d} = {"W", "w"}

\* a and b differ only in letter case and in whitespace: where it leads or
\* trails, and how long each run between two words is.
DifferInCaseAndSpaceOnly(a, b) ==
    LET wa == Words(a)
        wb == Words(b)
    IN  /\ Len(wa) = Len(wb)
        /\ \A i \in 1..Len(wa) :
              /\ Len(wa[i]) = Len(wb[i])
              /\ \A j \in 1..Len(wa[i]) : SameLetter(wa[i][j], wb[i][j])

\* C16: normalize(a) = normalize(b) exactly when a and b differ only in
\* letter case, in leading or trailing whitespace, or in the whitespace
\* runs between words; and normalize(normalize(a)) = normalize(a).
C16_NormalizeEquivalence ==
    last.op = "normalizeDesignation" =>
        /\ (last.res[1] = last.res[2])
             <=> DifferInCaseAndSpaceOnly(last.arg[1], last.arg[2])
        /\ last.again = last.res

\* "W \tw" and "w w" have just been normalized to the same key, "w w".
C16_Witness ==
    /\ last.op = "normalizeDesignation"
    /\ last.arg = << <<"W", " ", "\t", "w">>, <<"w", " ", "w">> >>
    /\ last.res = << <<"w", " ", "w">>, <<"w", " ", "w">> >>

\* No two labels of the list have the same key.
KeysDiffer(list) ==
    Cardinality({normalizeDesignation(list[i]) : i \in 1..Len(list)}) = Len(list)

\* The entries of list whose key is not that of label, in the order of list.
OthersOf(list, label) ==
    LET key == normalizeDesignation(label)
        keep == {i \in 1..Len(list) : normalizeDesignation(list[i]) # key}
        RECURSIVE Take(_)
        Take(n) == IF n = 0 THEN << >>
                   ELSE IF n \in keep THEN Append(Take(n - 1), list[n])
                   ELSE Take(n - 1)
    IN  Take(Len(list))

\* The list after label was recorded: label first, then the entries before
\* it that have another key, in their order, as far as the cap allows.
FrontedBy(new, old, label, cap) ==
    LET others == OthersOf(old, label)
    IN  /\ new # << >>
        /\ new[1] = label
        /\ Len(new) = (IF Len(others) + 1 > cap THEN cap ELSE Len(others) + 1)
        /\ \A i \in 2..Len(new) : new[i] = others[i - 1]

\* C17: after any sequence of addToHistory calls the global list has at most
\* 100 entries and every area's list at most 50, and no list holds two labels
\* with the same key; right after addToHistory(label, area) the literal label
\* is first in the global list and in that area's list, followed by the
\* entries that were there with another key, in their order.
C17_HistoryBounded ==
    /\ [](/\ Len(history.global) <= 100
          /\ KeysDiffer(history.global)
          /\ \A a \in DOMAIN history.byArea :
                /\ Len(history.byArea[a]) <= 50
                /\ KeysDiffer(history.byArea[a]))
    /\ [][ LET l == last'.arg[1]
               a == last'.arg[2]
           IN  (last'.op = "addToHistory" /\ RecordUsage(l, a, last'.n))
            => /\ FrontedBy(history'.global, history.global, l, 100)
               /\ FrontedBy(history'.byArea[a],
                            IF a \in DOMAIN history.byArea THEN history.byArea[a] ELSE << >>,
                            l, 50)
               /\ \A b \in DOMAIN history.byArea :
                     b # a => history'.byArea[b] = history.byArea[b] ]_vars

\* Both caps are in force: the 101st designation has been recorded, after
\* which the first one, dropped from both lists by then, was recorded again
\* in the other area under its other spelling and is first in both lists.
C17_Witness ==
    /\ last.op = "addToHistory"
    /\ last.n = 101
    /\ last.arg = <<Respelled, "PWHT">>
    /\ Len(history.global) = 100
    /\ Len(history.byArea["Spool Yard"]) = 50
    /\ history.global[1] = Respelled
    /\ history.byArea["PWHT"] = <<Respelled>>
    /\ history.global[2] = NumLabel(101)
    /\ history.byArea["Spool Yard"][50] = NumLabel(52)

\* The labels of list whose key contains the key of partial, in list order.
MatchesOf(list, partial) ==
    LET hit == {i \in 1..Len(list) :
                  Contains(normalizeDesignation(list[i]), normalizeDesignation(partial))}
        RECURSIVE Take(_)
        Take(n) == IF n = 0 THEN << >>
                   ELSE IF n \in hit THEN Append(Take(n - 1), list[n])
                   ELSE Take(n - 1)
    IN  Take(Len(list))

\* The entries of list that are not in seen, in list order.
NotIn(list, seen) ==
    LET RECURSIVE Take(_)
        Take(n) == IF n = 0 THEN << >>
                   ELSE IF \E j \in 1..Len(seen) : seen[j] = list[n] THEN Take(n - 1)
                   ELSE Append(Take(n - 1), list[n])
    IN  Take(Len(list))

\* C18: getSuggestions(partial, area) returns at most 5 labels: the area's
\* labels whose key contains the key of partial, most recent first, then,
\* if those are fewer than 5, the global labels that match and are not among
\* them, up to 5 in all.
C18_SuggestAtMostFive ==
    last.op = "getSuggestions" =>
        LET partial == last.arg[1]
            a == last.arg[2]
            fromArea == MatchesOf(IF a \in DOMAIN history.byArea
                                  THEN history.byArea[a] ELSE << >>, partial)
            fromGlobal == NotIn(MatchesOf(history.global, partial), fromArea)
            both == fromArea \o fromGlobal
        IN  /\ Len(last.res) <= 5
            /\ last.res = SubSeq(both, 1, IF Len(both) < 5 THEN Len(both) ELSE 5)

-----------------------------------------------------------------------------
(* Claims about the entry screen (SpecEntry) *)

StoredRows(att, areaName) == RowsOf(getAttendanceForDate(att, EntryDate), areaName)

\* A row confirmAll is to confirm: not confirmed, with a count.
Valid(row) == ~row.confirmed /\ row.present # Null

C20_ConfirmNeedsPresent ==
    [][ \A a \in AreaNames, n \in 1..2 :
        (ConfirmClick(a, n) /\ ~screen[a][n].checked)
        => LET key == screen[a][n].designationKey
               i == RowIndex(StoredRows(attendance, a), key)
           IN  i # 0 =>
                 IF StoredRows(attendance, a)[i].present = Null
                 THEN /\ last'.res = "warning"
                      /\ attendance' = attendance
                 ELSE /\ last'.res = "Saved"
                      /\ StoredRows(attendance', a)[i].confirmed ]_vars

-----------------------------------------------------------------------------
(* Attendance.deleteRow among rows and audit entries: SpecDelete *)

DeleteLabels == {<<"W">>, <<"F">>}

\* bob's session: rows are added in both areas, counts are typed in one,
\* audit entries are appended directly, and rows are deleted anywhere.
NextDelete ==
    \/ \E d \in Dates, a \in AreaNames, l \in DeleteLabels : AddOrUpdateRow(d, a, l)
    \/ \E d \in Dates, k \in Keys :
          UpdateRow(d, "Spool Yard", k, [fields |-> {"present"}, present |-> 3, confirmed |-> FALSE])
    \/ \E d \in Dates : AuditAppend(d, "Spool Yard", <<"w">>, "present", Null, 3)
    \/ \E d \in Dates, a \in AreaNames, k \in Keys : DeleteRow(d, a, k)

SpecDelete == InitLedger /\ [][NextDelete]_vars

\* The rows of a list whose key is not designationKey, in their order.
WithoutKey(rows, designationKey) ==
    LET Other(r) == r.designationKey # designationKey
    IN  SelectSeq(rows, Other)

HasKey(rows, designationKey) ==
    \E n \in 1..Len(rows) : rows[n].designationKey = designationKey

\* C21: deleteRow(date, area, key) on a stored row removes the row with that
\* key from that area and date and nothing else: the other rows of that
\* area, the rows of every other area, the date's audit ring and the date's
\* stamp stay as they were, and no audit entry is made; when the area has no
\* record or no row with that key, the attendance document does not change.
\* The area list, the designation history and the session are never changed.
C21_DeleteRowFrame ==
    [][ \A d \in Dates, a \in AreaNames, k \in Keys :
        DeleteRow(d, a, k) =>
        LET before == getAttendanceForDate(attendance, d)
            after == getAttendanceForDate(attendance', d)
        IN  /\ <<areas, history, session, users>>' = <<areas, history, session, users>>
            /\ IF a \in DOMAIN before.areas /\ HasKey(before.areas[a].rows, k)
               THEN /\ DOMAIN after.areas = DOMAIN before.areas
                    /\ after.areas[a].rows = WithoutKey(before.areas[a].rows, k)
                    /\ Len(after.areas[a].rows) = Len(before.areas[a].rows) - 1
                    /\ \A b \in DOMAIN before.areas \ {a} : after.areas[b] = before.areas[b]
                    /\ after.audit = before.audit
                    /\ after.updatedAt = before.updatedAt
                    /\ after.updatedBy = before.updatedBy
                    /\ DOMAIN attendance' = DOMAIN attendance
               ELSE attendance' = attendance ]_vars

\* A row was just deleted from an area that keeps another row after it,
\* while the other area holds rows and the date's audit ring holds entries.
C21_Witness ==
    /\ last.op = "deleteRow" /\ last.via = "saved"
    /\ \E d \in DOMAIN attendance :
        /\ Len(RowsOf(attendance[d], "Spool Yard")) = 1
        /\ RowsOf(attendance[d], "Spool Yard")[1].designationKey = <<"f">>
        /\ RowsOf(attendance[d], "Spool Yard")[1].designationLabel = <<"F">>
        /\ Len(RowsOf(attendance[d], "PWHT")) = 2
        /\ Len(attendance[d].audit) = 2

-----------------------------------------------------------------------------
(* Audit.addEntry and Audit.getEntries called on their own: SpecRing *)

RingDates == {"2024-05-01", "2024-05-02"}
\* A date nothing is ever written for.
BlankDate == "2024-05-03"
\* The new values handed to addEntry: two on the first date, one on the second.
RingValues(dateStr) == IF dateStr = "2024-05-01" THEN {3, 5} ELSE {3}

\* Audit.addEntry as any caller reaches it; last keeps the date, the new
\* value and the length of the ring the call read.
AddEntry(dateStr, areaName, designationKey, field, oldVal, newVal) ==
    LET r == CurrentUser(session, users, now)
    IN  /\ session' = r.session
        /\ UNCHANGED <<now, authRest, areas, history, changes, legacyVars, screen, settings>>
        /\ last' = [op |-> "addEntry", res |-> "undefined", via |-> r.via,
                    arg |-> <<dateStr, newVal>>,
                    had |-> Len(getEntries(attendance, dateStr))]
        /\ attendance' = IF r.user = NoUser THEN attendance
                         ELSE addEntry(attendance, r.user, now, dateStr, areaName,
                                       designationKey, field, oldVal, newVal)

\* Audit.getEntries: the list it returns.
GetEntries(dateStr) ==
    /\ last' = [op |-> "getEntries", res |-> getEntries(attendance, dateStr),
                arg |-> dateStr]
    /\ UNCHANGED <<now, session, authRest, ledgerVars, legacyVars, screen, settings>>

NextRing ==
    \/ \E d \in RingDates : \E v \in RingValues(d) :
          AddEntry(d, "Spool Yard", <<"w">>, "present", Null, v)
    \/ \E d \in RingDates \cup {BlankDate} : GetEntries(d)

SpecRing == InitLedger /\ [][NextRing]_vars

\* C22: every date's audit ring holds at most 10 entries in every state; a
\* direct addEntry with a live session puts the new entry (time, user, area,
\* key, field, old and new value as given) in front of the date's ring,
\* keeps the entries that were there in their order behind it, and drops
\* from the old end what exceeds 10, leaving every other date as it was;
\* and getEntries on a date without a document returns the empty list.
C22_AuditRing ==
    /\ [](\A d \in DOMAIN attendance : Len(attendance[d].audit) <= MAX_AUDIT_ENTRIES)
    /\ [](last.op = "getEntries" /\ last.arg \notin DOMAIN attendance
            => last.res = << >>)
    /\ [][ (last'.op = "addEntry" /\ LiveSession) =>
           LET d == last'.arg[1]
               old == getEntries(attendance, d)
               new == getEntries(attendance', d)
               kept == IF Len(old) < MAX_AUDIT_ENTRIES THEN Len(old)
                       ELSE MAX_AUDIT_ENTRIES - 1
           IN  /\ new[1] = AuditEntry(now, session.currentUser, "Spool Yard", <<"w">>,
                                      "present", Null, last'.arg[2])
               /\ Len(new) = kept + 1
               /\ \A i \in 1..kept : new[i + 1] = old[i]
               /\ \A e \in DOMAIN attendance \ {d} :
                    e \in DOMAIN attendance' /\ attendance'[e] = attendance[e] ]_vars

\* An entry was just appended to a full ring of mixed entries: the oldest
\* was dropped, the ring still has 10; and the other date has a ring too.
C22_Witness ==
    /\ last.op = "addEntry" /\ last.had = MAX_AUDIT_ENTRIES
    /\ last.arg = <<"2024-05-01", 5>>
    /\ "2024-05-02" \in DOMAIN attendance
    /\ LET ring == getEntries(attendance, "2024-05-01")
       IN  /\ Len(ring) = MAX_AUDIT_ENTRIES
           /\ ring[1].to = 5 /\ ring[2].to = 3 /\ ring[3].to = 5 /\ ring[10].to = 3

-----------------------------------------------------------------------------
(* Auth.createUser and Auth.resetPassword around their awaits: SpecUsers *)

MaxCalls == 2        \* createUser and resetPassword calls suspended at the same time

\* The names typed into the New User dialog: one taken, one that differs
\* from it in case only, one new.
NewUsernames == {"bob", "Bob", "carol"}
\* The accounts whose password is reset: one stored, one never stored.
ResetUsernames == {"bob", "mallory"}

\* The record createUser pushes (createdAt is never read and is left out).
NewUser(username, password, role, assignedAreas, salt) ==
    [username |-> username, role |-> role, salt |-> salt,
     passwordHash |-> hashPassword(password, salt),
     assignedAreas |-> assignedAreas, disabled |-> FALSE]

\* Auth.createUser up to the await of Utils.hashPassword: the list is read,
\* the name is looked up, the salt is drawn: salt is what generateSalt
\* returns.  (The await of generateSalt resumes before any other handler
\* can run.)
CreateUserBegin(username, password, role, assignedAreas, salt) ==
    /\ UNCHANGED <<now, session, users, fails, ledgerVars, legacyVars, screen, settings>>
    /\ IF FindUser(users, username) # 0
       THEN /\ last' = [op |-> "createUser", res |-> "Username already exists",
                        arg |-> username]
            /\ UNCHANGED pending
       ELSE /\ Cardinality(pending) < MaxCalls
            /\ pending' = pending \cup
                    {[op |-> "createUser", users |-> users,
                      user |-> NewUser(username, password, role, assignedAreas, salt)]}
            /\ UNCHANGED last

CreateUserResume_AppendsToStored(call) ==
    /\ call \in pending
    /\ call.op = "createUser"
    /\ pending' = pending \ {call}
    /\ users' = Append(users, call.user)
    /\ last' = [op |-> "createUser", res |-> "ok", arg |-> call.user.username]
    /\ UNCHANGED <<now, session, fails, ledgerVars, legacyVars, screen, settings>>

\* Auth.createUser from the await on: the push onto the list read before
\* the await, and the save of that list.
CreateUserResume(call) ==
    /\ call \in pending
    /\ call.op = "createUser"
    /\ pending' = pending \ {call}
    /\ users' = Append(call.users, call.user)
    /\ last' = [op |-> "createUser", res |-> "ok", arg |-> call.user.username]
    /\ UNCHANGED <<now, session, fails, ledgerVars, legacyVars, screen, settings>>

resetUser_KeepsSalt(us, i, newPassword, salt) ==
    [us EXCEPT ![i].passwordHash = hashPassword(newPassword, salt)]

\* user.salt = salt; user.passwordHash = hash, on the list resetPassword read.
resetUser(us, i, newPassword, salt) ==
    [us EXCEPT ![i].salt = salt,
               ![i].passwordHash = hashPassword(newPassword, salt)]

\* Auth.resetPassword up to the await of Utils.hashPassword: the list is
\* read, the user is looked up, the salt is drawn and set on the copy read:
\* salt is what generateSalt returns.
ResetPasswordBegin(username, newPassword, salt) ==
    LET i == FindUser(users, username)
    IN  /\ UNCHANGED <<now, session, users, fails, ledgerVars, legacyVars, screen, settings>>
        /\ IF i = 0
           THEN /\ last' = [op |-> "resetPassword", res |-> "User not found",
                            arg |-> username]
                /\ UNCHANGED pending
           ELSE /\ Cardinality(pending) < MaxCalls
                /\ pending' = pending \cup
                        {[op |-> "resetPassword", users |-> users, i |-> i,
                          username |-> username, password |-> newPassword,
                          salt |-> salt]}
                /\ UNCHANGED last

\* Auth.resetPassword from the await on: the hash is set and the list saved.
ResetPasswordResume(call) ==
    /\ call \in pending
    /\ call.op = "resetPassword"
    /\ pending' = pending \ {call}
    /\ users' = resetUser(call.users, call.i, call.password, call.salt)
    /\ last' = [op |-> "resetPassword", res |-> "ok",
                arg |-> <<call.username, call.password>>]
    /\ UNCHANGED <<now, session, fails, ledgerVars, legacyVars, screen, settings>>

\* alice, the admin, logged in at time 0 and has the Admin view open.
InitUsers ==
    /\ now = 1
    /\ session = SessionOf("alice")
    /\ users = InitialUsers
    /\ pending = {}
    /\ last = NoCall
    /\ fails = 0
    /\ InitRest

NextUsers ==
    \/ \E u \in NewUsernames : CreateUserBegin(u, "pw1", "user", <<"PWHT">>, "s1")
    \/ \E c \in pending : CreateUserResume(c)
    \/ \E u \in ResetUsernames, p \in Passwords : ResetPasswordBegin(u, p, "s1")
    \/ \E c \in pending : ResetPasswordResume(c)

SpecUsers == InitUsers /\ [][NextUsers]_vars

-----------------------------------------------------------------------------
(* Claims about the user list (SpecUsers) *)

Named(us, username) == {i \in 1..Len(us) : us[i].username = username}

\* C23: the usernames of the stored user list are pairwise distinct in every
\* state, also while createUser calls overlap; createUser with the exact
\* name of a stored user fails with "Username already exists" and leaves
\* the user list as it was, and with any other name (a name that differs in
\* case only included) it does not fail; a createUser that completes leaves
\* the list with exactly one user of that name, the last one, with the
\* given role and areas and disabled = false, and when the list is as the
\* call read it, the list after is that list with this one user appended.
C23_CreateUser ==
    /\ [](\A i, j \in 1..Len(users) : users[i].username = users[j].username => i = j)
    /\ [][ \A u \in NewUsernames :
           CreateUserBegin(u, "pw1", "user", <<"PWHT">>, "s1") =>
             /\ users' = users
             /\ IF Named(users, u) # {}
                THEN /\ last'.res = "Username already exists"
                     /\ pending' = pending
                ELSE \E c \in pending' :
                        /\ c.op = "createUser" /\ c.user.username = u ]_vars
    /\ [][ \A c \in pending :
           CreateUserResume(c) =>
             LET u == users'[Len(users')]
             IN  /\ Named(users', c.user.username) = {Len(users')}
                 /\ u.username = c.user.username
                 /\ u.role = "user" /\ u.assignedAreas = <<"PWHT">>
                 /\ u.disabled = FALSE
                 /\ u.passwordHash = hashPassword("pw1", u.salt)
                 /\ (c.users = users => users' = Append(users, u)) ]_vars

\* "carol" was just created while a second createUser("carol"), begun
\* before the first completed, is still suspended; "Bob" was created next
\* to "bob".
C23_Witness ==
    /\ last = [op |-> "createUser", res |-> "ok", arg |-> "carol"]
    /\ Named(users, "carol") # {}
    /\ Named(users, "Bob") # {} /\ Named(users, "bob") # {}
    /\ \E c \in pending : c.op = "createUser" /\ c.user.username = "carol"

\* The passwords p for which the stored record of a user verifies:
\* hashPassword(p, salt) is the stored hash.
Verifying(user) == {p \in Passwords : hashPassword(p, user.salt) = user.passwordHash}

\* C24: in every stored user list, also while resetPassword calls are
\* suspended at the await of the hash, each user's passwordHash is the hash
\* of a password with the salt stored next to it; resetPassword for a name
\* that is not stored fails with "User not found" and leaves the list as it
\* was, and for a stored name writes nothing before its await; when it
\* completes, the user has the salt drawn and the hash of newPassword with
\* it, login with newPassword succeeds, login with the password that
\* verified before (when it is another one) is refused, and the other
\* records are those of the list the call read.
C24_ResetPassword ==
    /\ [](\A i \in 1..Len(users) : Verifying(users[i]) # {})
    /\ [][ \A u \in ResetUsernames, p \in Passwords :
           ResetPasswordBegin(u, p, "s1") =>
             /\ users' = users
             /\ Named(users, u) = {} =>
                  /\ last'.res = "User not found"
                  /\ pending' = pending ]_vars
    /\ [][ \A c \in pending :
           ResetPasswordResume(c) =>
             LET i == FindUser(users', c.username)
                 before == Verifying(c.users[c.i])
             IN  /\ i = c.i
                 /\ users'[i].salt = c.salt
                 /\ Verifying(users'[i]) = {c.password}
                 /\ LoginOutcome(EmptySession, users', now,
                                 c.username, c.password).res = "ok"
                 /\ \A old \in before \ {c.password} :
                      LoginOutcome(EmptySession, users', now,
                                   c.username, old).res = "InvalidCredentials"
                 /\ Len(users') = Len(c.users)
                 /\ \A n \in 1..Len(users') : n # i => users'[n] = c.users[n]
                 /\ users'[i].username = c.username
                 /\ users'[i].role = c.users[i].role
                 /\ users'[i].disabled = c.users[i].disabled ]_vars

\* bob's password was just reset from "pw2" to "pw1" with a new salt while
\* another resetPassword call is suspended at its await.
C24_Witness ==
    /\ last = [op |-> "resetPassword", res |-> "ok", arg |-> <<"bob", "pw1">>]
    /\ LET i == FindUser(users, "bob")
       IN  /\ i # 0
           /\ users[i].salt = "s1"
           /\ users[i].passwordHash = hashPassword("pw1", "s1")
    /\ \E c \in pending : c.op = "resetPassword" /\ c.password = "pw2"

-----------------------------------------------------------------------------
(* AdminView's area list in both applications, with dialogs left open
   while the stored list changes: SpecAreas *)

MaxDialogs == 2      \* Delete confirm dialogs open at the same time, per application

\* The names typed into app.js's Add Area dialog, trimmed.
AddedNames == {"Spool Yard", "PWHT"}

\* Dialogs are kept as a map from the captured name to the number of open
\* dialogs that captured it (the same row's button clicked in two tabs).
OpenCount(bag, name) == IF name \in DOMAIN bag THEN bag[name] ELSE 0

RECURSIVE OpenTotal(_)
OpenTotal(bag) ==
    IF DOMAIN bag = {} THEN 0
    ELSE LET k == CHOOSE x \in DOMAIN bag : TRUE
         IN  bag[k] + OpenTotal([x \in DOMAIN bag \ {k} |-> bag[x]])

OneMore(bag, name) == Put(bag, name, OpenCount(bag, name) + 1)

OneFewer(bag, name) ==
    IF bag[name] = 1 THEN [x \in DOMAIN bag \ {name} |-> bag[x]]
    ELSE [bag EXCEPT ![name] = @ - 1]

\* The Add button of app.js's showAddAreaModal, with the trimmed name.
AddArea(name) ==
    /\ UNCHANGED <<now, session, authRest, attendance, history, changes,
                   legacyVars, screen, settings>>
    /\ IF Includes(areas, name)
       THEN /\ last' = [op |-> "addArea", res |-> "Already exists", arg |-> name]
            /\ UNCHANGED areas
       ELSE /\ areas' = Append(areas, name)
            /\ last' = [op |-> "addArea", res |-> "Area added", arg |-> name]

\* app.js's deleteArea(area), from the Delete button of a row of the area
\* table: UI.confirm opens a dialog whose callback keeps the row's name.
OpenDelete(area) ==
    /\ Includes(areas, area)
    /\ OpenTotal(asking.app) < MaxDialogs
    /\ asking' = [asking EXCEPT !.app = OneMore(@, area)]
    /\ UNCHANGED <<authVars, ledgerVars, screen, settings, legacy, dialog, last>>

\* The Confirm button of that dialog: the callback of app.js:1366-1374.
DeleteConfirm(area) ==
    LET idx == IndexOf(areas, area)
    IN  /\ OpenCount(asking.app, area) > 0
        /\ asking' = [asking EXCEPT !.app = OneFewer(@, area)]
        /\ UNCHANGED <<authVars, attendance, history, changes, screen, settings, legacy, dialog>>
        /\ IF idx # 0
           THEN /\ areas' = RemoveAt(areas, idx)
                /\ last' = [op |-> "deleteArea", res |-> "Area deleted", arg |-> area]
           ELSE /\ UNCHANGED areas
                /\ last' = [op |-> "deleteArea", res |-> "none", arg |-> area]

\* part_001's deleteArea(areaName): the confirm dialog is opened.
LegacyOpenDelete(areaName) ==
    /\ Includes(legacy.areas, areaName)
    /\ OpenTotal(asking.legacy) < MaxDialogs
    /\ asking' = [asking EXCEPT !.legacy = OneMore(@, areaName)]
    /\ UNCHANGED <<authVars, ledgerVars, screen, settings, legacy, dialog, last>>

\* The Confirm button of that dialog: the callback of part_001:1477-1494,
\* which splices at whatever indexOf returns.
LegacyDeleteConfirm(areaName) ==
    /\ OpenCount(asking.legacy, areaName) > 0
    /\ asking' = [asking EXCEPT !.legacy = OneFewer(@, areaName)]
    /\ legacy' = [legacy EXCEPT
                    !.areas = spliceOne(@, IndexOf(@, areaName)),
                    !.users = deleteInUsers(@, areaName)]
    /\ last' = [op |-> "legacyDeleteArea", res |-> "Area deleted", arg |-> areaName]
    /\ UNCHANGED <<authVars, ledgerVars, screen, settings, dialog>>

NextAreas ==
    \/ \E a \in AddedNames : AddArea(a)
    \/ \E a \in AddedNames : OpenDelete(a)
    \/ \E a \in AddedNames : DeleteConfirm(a)
    \/ \E a \in LegacyAreaNames : LegacyAddArea(a)
    \/ \E a \in LegacyAreaNames : OpenRename(a)
    \/ \E a \in LegacyAreaNames : RenameConfirm(a)
    \/ \E a \in LegacyAreaNames : LegacyOpenDelete(a)
    \/ \E a \in LegacyAreaNames : LegacyDeleteConfirm(a)

SpecAreas == InitUsers /\ [][NextAreas]_vars

-----------------------------------------------------------------------------
(* Claims about the area list (SpecAreas) *)

NoDuplicates(list) == \A i, j \in 1..Len(list) : list[i] = list[j] => i = j

\* C25: the stored area list holds no name twice, in app.js and in
\* part_001, in every state reached from the default list by Add Area,
\* Rename Area and Delete Area, also when Rename or Delete is confirmed in
\* a dialog that was opened before the list changed.
C25_AreaNamesUnique ==
    /\ NoDuplicates(areas)
    /\ NoDuplicates(legacy.areas)

\* Rename "Spool Yard" to "Spool Yard Renamed" was just confirmed in a
\* dialog opened before "Spool Yard" left the list, while a Delete dialog
\* for a name still listed is open; in app.js both areas were deleted and
\* one was added again.
C25_Witness ==
    /\ last = [op |-> "renameArea", res |-> "renamed",
               arg |-> <<"Spool Yard", "Spool Yard Renamed">>]
    /\ legacy.areas = <<"PWHT">>
    /\ OpenCount(asking.legacy, "PWHT") = 1
    /\ areas = <<"Spool Yard">>
    /\ OpenCount(asking.app, "PWHT") = 1

\* No user's assignedAreas holds the name.
AssignedNowhere(us, name) == \A n \in 1..Len(us) : name \notin Range(us[n].assignedAreas)

\* C26: once Delete Area is confirmed for a name, in app.js (for a name
\* still listed) and in part_001, the name is in the area list no more and
\* in no user's assignedAreas.
C26_DeletePropagates ==
    [][ /\ \A a \in AddedNames :
            (DeleteConfirm(a) /\ last'.res = "Area deleted")
            => /\ a \notin Range(areas')
               /\ AssignedNowhere(users', a)
        /\ \A a \in LegacyAreaNames :
            LegacyDeleteConfirm(a)
            => /\ a \notin Range(legacy'.areas)
               /\ AssignedNowhere(legacy'.users, a) ]_vars

-----------------------------------------------------------------------------
(* The entry screen while the session changes hands: SpecRoles *)

\* The logins made in another tab of the browser (the session document is
\* shared), with the right passwords.
RoleLogins == {<<"alice", "pw1">>, <<"bob", "pw2">>}

\* alice, the admin, is logged in at time 1 after she left a row in "PWHT".
InitRoles ==
    /\ now = 1
    /\ session = SessionOf("alice")
    /\ users = InitialUsers
    /\ pending = {}
    /\ last = NoCall
    /\ fails = 0
    /\ areas = DEFAULT_AREAS
    /\ attendance = AliceLeft.attendance
    /\ history = AliceLeft.history
    /\ changes = [d \in Dates |-> << >>]
    /\ legacy = [areas |-> DEFAULT_AREAS, users |-> InitialUsers, attendance |-> EmptyMap,
                 settings |-> DefaultSettings]
    /\ dialog = NoDialog
    /\ asking = NoAsking
    /\ settings = DefaultSettings
    /\ screen = EmptyMap

NextRoles ==
    \/ EntryRender
    \/ EntryAddRow("Spool Yard", <<"W">>)
    \/ \E a \in AreaNames, v \in EntryPresent : PresentChange(a, 1, v)
    \/ \E a \in AreaNames : ConfirmClick(a, 1)
    \/ ConfirmAll
    \/ Logout
    \/ \E c \in RoleLogins : LoginBegin(c[1], c[2])
    \/ \E c \in pending : LoginResume(c)

SpecRoles == InitRoles /\ [][NextRoles]_vars

\* The entries of a date's audit ring that name the area.
AuditOf(att, dateStr, areaName) ==
    LET Here(e) == e.area = areaName
    IN  SelectSeq(getEntries(att, dateStr), Here)

\* The user a step acts for: the one getCurrentUser returns before it.
Acting == CurrentUser(session, users, now).user

NotAssigned(username, areaName) ==
    LET i == FindUser(users, username)
    IN  /\ i # 0
        /\ users[i].role = "user"
        /\ areaName \notin Range(users[i].assignedAreas)

\* C27: no step taken under the live session of a user with role 'user'
\* changes the rows, or the audit entries, of an area that is not among
\* that user's assignedAreas.
C27_OnlyAssignedAreas ==
    [][ \A a \in AreaNames :
        (Acting # NoUser /\ NotAssigned(Acting, a))
        => /\ StoredRows(attendance', a) = StoredRows(attendance, a)
           /\ AuditOf(attendance', EntryDate, a) = AuditOf(attendance, EntryDate, a) ]_vars

-----------------------------------------------------------------------------
(* Claims about the session's lifetime (Spec) *)

\* C28: the session expires after 8 hours of inactivity, so it stays live
\* while consecutive authenticated operations are less than 8 hours apart:
\* when getCurrentUser returns the user at some time (the last call did,
\* and a call at this time does) and less than 8 hours then pass with
\* nothing else happening, the next getCurrentUser returns the user again.
C28_InactivityExpiry ==
    [][ \A d \in TickSteps :
        (/\ d < SESSION_DURATION
         /\ last.op = "getCurrentUser" /\ last.via = "live"
         /\ CurrentUser(session, users, now).via = "live"
         /\ Tick(d))
        => CurrentUser(session', users', now').via = "live" ]_vars

-----------------------------------------------------------------------------
(* App.init on a browser without stored data, in both applications:
   SpecFirstRun *)

\* The screens UI.switchScreen shows.
Screens == {"create-admin-screen", "login-screen", "app-screen"}

\* users.some(u => u.role === 'admin' && !u.disabled)
HasAdmin(us) == \E n \in 1..Len(us) : us[n].role = "admin" /\ ~us[n].disabled

\* App.init of app.js: checkFirstRun, and when it returns true nothing
\* else; otherwise the screen for the current user.  res is the screen
\* shown when init returns.
AppInit ==
    LET r == CurrentUser(session, users, now)
    IN  /\ UNCHANGED <<now, authRest, attendance, history, changes, legacyVars, screen, settings>>
        /\ IF Len(users) = 0 \/ ~HasAdmin(users)
           THEN /\ areas' = IF Len(areas) = 0 THEN DEFAULT_AREAS ELSE areas
                /\ last' = [op |-> "init", res |-> "create-admin-screen"]
                /\ UNCHANGED session
           ELSE /\ session' = r.session
                /\ last' = [op |-> "init",
                            res |-> IF r.user # NoUser THEN "app-screen"
                                    ELSE "login-screen"]
                /\ UNCHANGED areas

\* App.init of part_001: checkFirstRun shows the create-admin screen and
\* returns nothing; init goes on to getCurrentUser and switches the screen
\* again.  (No login of part_001 is followed here: its session document is
\* the default one.)
LegacyAppInit ==
    LET firstRun == Len(legacy.users) = 0
        afterCheck == IF firstRun THEN "create-admin-screen" ELSE "none"
        r == CurrentUser(EmptySession, legacy.users, now)
    IN  /\ UNCHANGED <<authVars, ledgerVars, screen, settings, dialog, asking>>
        /\ legacy' = [legacy EXCEPT !.areas =
                        IF firstRun /\ Len(@) = 0 THEN DEFAULT_AREAS ELSE @]
        /\ last' = [op |-> "legacyInit",
                    res |-> IF r.user # NoUser THEN "app-screen" ELSE "login-screen",
                    first |-> afterCheck]

\* The Create Admin button of part_001 with a valid form, as one step.
LegacyCreateAdmin(username, password, salt) ==
    /\ FindUser(legacy.users, username) = 0
    /\ legacy' = [legacy EXCEPT !.users =
                    Append(@, NewUser(username, password, "admin", << >>, salt))]
    /\ last' = [op |-> "legacyCreateAdmin", res |-> "login-screen"]
    /\ UNCHANGED <<authVars, ledgerVars, screen, settings, dialog, asking>>

\* A browser that has never run either application.
InitFirstRun ==
    /\ now = 0
    /\ session = EmptySession
    /\ users = << >>
    /\ pending = {}
    /\ last = NoCall
    /\ fails = 0
    /\ areas = << >>
    /\ attendance = EmptyMap
    /\ history = EmptyHistory
    /\ changes = [d \in Dates |-> << >>]
    /\ legacy = [areas |-> << >>, users |-> << >>, attendance |-> EmptyMap,
                 settings |-> DefaultSettings]
    /\ dialog = NoDialog
    /\ asking = NoAsking
    /\ settings = DefaultSettings
    /\ screen = EmptyMap

NextFirstRun ==
    \/ AppInit
    \/ LegacyAppInit
    \/ CreateUserBegin("alice", "pw1", "admin", << >>, "s1")
    \/ \E c \in pending : c.op = "createUser" /\ CreateUserResume(c)
    \/ LegacyCreateAdmin("alice", "pw1", "s1")
    \/ \E p \in Passwords : LoginBegin("alice", p)
    \/ \E c \in pending : c.op = "login" /\ LoginResume(c)
    \/ Logout
    \/ ImportMinimalBackup
    \/ \E d \in TickSteps : Tick(d)

SpecFirstRun == InitFirstRun /\ [][NextFirstRun]_vars

\* C29: when App.init runs on an empty user list, the screen shown when it
\* returns is the create-admin screen, in app.js and in part_001.
C29_FirstRunCreateAdmin ==
    [][ /\ (AppInit /\ users = << >>) => last'.res = "create-admin-screen"
        /\ (LegacyAppInit /\ legacy.users = << >>)
             => last'.res = "create-admin-screen" ]_vars

-----------------------------------------------------------------------------
(* BackupView.importBackup: the documents an imported file replaces *)

\* The keys a backup file can hold (exportBackup writes all of them but
\* "designationHistory" in part_001).
BackupKeys == {"version", "settings", "areas", "users", "attendance",
               "designationHistory"}

\* What the imported file holds under each key it has.
FileSettings == [darkMode |-> TRUE, retentionDays |-> 90]
FileAreas == <<"PWHT">>
FileUsers == <<InitialUsers[1]>>
FileAttendance == [d \in Dates |-> NewDateDoc]
FileHistory == [global |-> << <<"F">> >>, byArea |-> EmptyMap]

\* The parsed files: one for every set of keys present.
Backups ==
    { [keys |-> ks, settings |-> FileSettings, areas |-> FileAreas,
       users |-> FileUsers, attendance |-> FileAttendance,
       designationHistory |-> FileHistory] : ks \in SUBSET BackupKeys }

\* backup.key is not undefined.
Has(backup, key) == key \in backup.keys

\* BackupView.importBackup of app.js: reader.onload on the parsed file,
\* followed by OK in the "Overwrite all data?" dialog, whose callback holds
\* nothing but the parsed file.
ImportBackup(backup) ==
    /\ UNCHANGED <<now, session, pending, fails, changes, legacyVars, screen>>
    /\ IF ~Has(backup, "version") \/ ~Has(backup, "settings")
       THEN /\ last' = [op |-> "importBackup", res |-> "InvalidBackup"]
            /\ UNCHANGED <<settings, areas, users, attendance, history>>
       ELSE /\ settings' = backup.settings
            /\ areas' = IF Has(backup, "areas") THEN backup.areas ELSE << >>
            /\ users' = IF Has(backup, "users") THEN backup.users ELSE << >>
            /\ attendance' = IF Has(backup, "attendance") THEN backup.attendance
                             ELSE EmptyMap
            /\ history' = IF Has(backup, "designationHistory")
                          THEN backup.designationHistory ELSE history
            /\ last' = [op |-> "importBackup", res |-> "ok"]

\* BackupView.importBackup of part_001, with OK in its dialog.
LegacyImportBackup(backup) ==
    /\ UNCHANGED <<authVars, ledgerVars, screen, settings, asking, dialog>>
    /\ IF \E k \in {"version", "settings", "areas", "users", "attendance"} :
              ~Has(backup, k)
       THEN /\ last' = [op |-> "legacyImportBackup", res |-> "InvalidBackup"]
            /\ UNCHANGED legacy
       ELSE /\ legacy' = [settings |-> backup.settings, areas |-> backup.areas,
                          users |-> backup.users,
                          attendance |-> backup.attendance]
            /\ last' = [op |-> "legacyImportBackup", res |-> "ok"]

\* The theme toggle of App.setupTheme.
ToggleDarkMode ==
    /\ settings' = [settings EXCEPT !.darkMode = ~@]
    /\ last' = [op |-> "toggleDarkMode", res |-> "undefined"]
    /\ UNCHANGED <<authVars, ledgerVars, legacyVars, screen>>

NextImport ==
    \/ \E b \in Backups : ImportBackup(b)
    \/ \E b \in Backups : LegacyImportBackup(b)
    \/ ToggleDarkMode
    \/ \E d \in Dates, a \in AreaNames : AddOrUpdateRow(d, a, <<"W">>)
    \/ \E d \in Dates : LegacyUpdateArea("alice", d, "Spool Yard", 3)

SpecImport == InitLedger /\ [][NextImport]_vars

\* The document is the file's when the file has the key, and as it was when
\* the file has not.
ReplacedIfPresent(backup, key, old, new) ==
    IF Has(backup, key) THEN new = backup[key] ELSE new = old

\* C30: an import of a file without version or settings fails with
\* InvalidBackup and changes no document; any other import replaces exactly
\* the documents whose key the file has and leaves the others as they were.
C30_ImportReplacesPresentKeys ==
    [][ \A b \in Backups :
          /\ ImportBackup(b) =>
               IF ~Has(b, "version") \/ ~Has(b, "settings")
               THEN /\ last'.res = "InvalidBackup"
                    /\ UNCHANGED <<settings, areas, users, attendance, history>>
               ELSE /\ last'.res = "ok"
                    /\ settings' = b.settings
                    /\ ReplacedIfPresent(b, "areas", areas, areas')
                    /\ ReplacedIfPresent(b, "users", users, users')
                    /\ ReplacedIfPresent(b, "attendance", attendance, attendance')
                    /\ ReplacedIfPresent(b, "designationHistory", history, history')
          /\ LegacyImportBackup(b) =>
               IF ~Has(b, "version") \/ ~Has(b, "settings")
               THEN /\ last'.res = "InvalidBackup"
                    /\ UNCHANGED legacy
               ELSE /\ last'.res = "ok"
                    /\ legacy'.settings = b.settings
                    /\ ReplacedIfPresent(b, "areas", legacy.areas, legacy'.areas)
                    /\ ReplacedIfPresent(b, "users", legacy.users, legacy'.users)
                    /\ ReplacedIfPresent(b, "attendance", legacy.attendance,
                                         legacy'.attendance) ]_vars

-----------------------------------------------------------------------------
(* Utils.generatePassword: the temporary passwords of AdminView *)

\* The alphabet of generatePassword, one character per element.
chars ==
    <<"A","B","C","D","E","F","G","H","J","K","L","M","N","P","Q","R","S","T",
      "U","V","W","X","Y","Z",
      "a","b","c","d","e","f","g","h","j","k","m","n","p","q","r","s","t","u",
      "v","w","x","y","z",
      "2","3","4","5","6","7","8","9","!","@","#","$","%">>

\* The values of one element of a Uint8Array.
Bytes == 0..255

\* The lengths asked for.
PasswordLengths == {0, 1, 2}

\* Utils.generatePassword, on the array crypto.getRandomValues has filled.
generatePassword(arr) == [i \in 1..Len(arr) |-> chars[(arr[i] % Len(chars)) + 1]]

\* The byte values the random source is made to give: the lowest, two that
\* give the same character as one of them, the last character's, the highest.
DrawnBytes == (0..11) \cup {59, 60, 120, 255}

\* The arrays crypto.getRandomValues fills for a length.
RandomArrays(length) == [1..length -> DrawnBytes]

\* Utils.generatePassword(length)
GeneratePassword(length) ==
    /\ \E arr \in RandomArrays(length) :
          last' = [op |-> "generatePassword", res |-> generatePassword(arr),
                   arg |-> length]
    /\ UNCHANGED <<authVars, ledgerVars, legacyVars, screen, settings>>

NextPassword == \E length \in PasswordLengths : GeneratePassword(length)

SpecPassword == InitLedger /\ [][NextPassword]_vars

\* The characters of the alphabet.
Alphabet == {chars[i] : i \in 1..Len(chars)}

\* The byte values that give a character.
BytesGiving(ch) == {b \in Bytes : generatePassword(<<b>>) = <<ch>>}

\* C31: generatePassword(length) returns length characters of the 60-character
\* alphabet, and every character of the alphabet is given by the same number
\* of the 256 byte values.
C31_UniformPassword ==
    last.op = "generatePassword" =>
       /\ Cardinality(Alphabet) = 60
       /\ Len(last.res) = last.arg
       /\ \A i \in 1..Len(last.res) : last.res[i] \in Alphabet
       /\ \A c1, c2 \in Alphabet :
             Cardinality(BytesGiving(c1)) = Cardinality(BytesGiving(c2))

-----------------------------------------------------------------------------
(* Overlapping login calls *)

\* C32: a login call that completes successfully does so at a moment when the
\* persisted session is not in its cooldown, and it does not erase a cooldown
\* another call persisted while it was suspended (a call that read no
\* cooldown at its start finds none when it completes; one that read an
\* elapsed cooldown finds no running one).
C32_OverlappingLogins ==
    [][ \A c \in pending :
          (c.op = "login" /\ LoginResume(c) /\ last'.res = "ok")
          => /\ ~IsLockedOut(session, now)
             /\ ~c.afterLockout => session.failedLogin.cooldownUntil = Null ]_vars

-----------------------------------------------------------------------------
(* The user list across the await of resetPassword and createUser *)

\* The names of the users created while other calls are suspended.
OverlapUsernames == {"carol", "dave"}

NextOverlap ==
    \/ \E u \in OverlapUsernames : CreateUserBegin(u, "pw1", "user", <<"PWHT">>, "s1")
    \/ \E c \in pending : CreateUserResume(c)
    \/ ResetPasswordBegin("bob", "pw2", "s2")
    \/ \E c \in pending : ResetPasswordResume(c)
    \/ \E u \in Toggled : ToggleUser(u)

SpecOverlap == InitUsers /\ [][NextOverlap]_vars

\* Every user of the list us is a user of the list us2, disabled there if and
\* only if disabled in us.
KeepsUsers(us, us2) ==
    \A i \in 1..Len(us) :
        LET j == FindUser(us2, us[i].username)
        IN  j # 0 /\ us2[j].disabled = us[i].disabled

\* C33: when a suspended resetPassword or createUser call completes, every
\* user stored at that moment is still in the list, disabled as it was: what
\* toggleUser or another createUser persisted during the await is kept.
C33_KeepsChangesDuringAwait ==
    [][ \A c \in pending :
          (ResetPasswordResume(c) \/ CreateUserResume(c))
          => KeepsUsers(users, users') ]_vars

-----------------------------------------------------------------------------
(* The allowance after a lockout *)

\* The cooldown of the session was set and has elapsed.
CooldownElapsed(sess, t) ==
    /\ sess.failedLogin.cooldownUntil # Null
    /\ t >= sess.failedLogin.cooldownUntil

\* C34: after the cooldown has elapsed, a failed login does not start a new
\* lockout unless it is the fifth since the lockout (fails counts the failed
\* credential checks since the last successful login).
C34_FreshAllowance ==
    [][ (/\ CooldownElapsed(session, now)
         /\ fails' = fails + 1
         /\ fails' % MAX_LOGIN_ATTEMPTS # 0)
        => ~IsLockedOut(session', now') ]_vars

-----------------------------------------------------------------------------
(* deleteArea: what the confirmed deletion removes *)

\* The list without the entries equal to name, the others in their order.
Without(list, name) ==
    LET Other(x) == x # name
    IN  SelectSeq(list, Other)

\* C35: a confirmed deleteArea(name) leaves the area list without name and
\* every other area in its place, in app.js and in part_001, also when name
\* is no longer in the list when the dialog is confirmed.
C35_DeleteAreaRemovesOnlyName ==
    [][ /\ \A a \in AddedNames :
             DeleteConfirm(a) => areas' = Without(areas, a)
        /\ \A a \in LegacyAreaNames :
             LegacyDeleteConfirm(a) => legacy'.areas = Without(legacy.areas, a) ]_vars

-----------------------------------------------------------------------------
(* part_001's entry screen: debouncedSave and clearAll *)

\* What is typed into a Present Count field.
DebounceValues == {Null, 3, 5}

\* Attendance.getAreaData's default: the area has no data on the date.
NoAreaData == [presentCount |-> Null, confirmed |-> FALSE,
               updatedAt |-> Null, updatedBy |-> NoUser]

\* Attendance.getAreaData of part_001, on the attendance document att.
getAreaData(att, dateString, areaName) ==
    LET data == IF dateString \in DOMAIN att THEN att[dateString] ELSE NewDateDoc
    IN  IF areaName \in DOMAIN data.areas THEN data.areas[areaName] ELSE NoAreaData

\* Attendance.updateArea of part_001 for the live user username at time t:
\* updates.fields are the keys of the updates object.  (Audit.addEntry
\* saves the date document first and the last save stores the document read
\* before over it, so the audit list stays as it was read.)
updateArea(att, username, t, dateString, areaName, updates) ==
    LET data == IF dateString \in DOMAIN att THEN att[dateString] ELSE NewDateDoc
        oldData == getAreaData(att, dateString, areaName)
        newData == [presentCount |-> IF "presentCount" \in updates.fields
                                     THEN updates.presentCount
                                     ELSE oldData.presentCount,
                    confirmed |-> IF "confirmed" \in updates.fields
                                  THEN updates.confirmed ELSE oldData.confirmed,
                    updatedAt |-> t, updatedBy |-> username]
    IN  Put(att, dateString,
            [data EXCEPT !.areas = Put(@, areaName, newData),
                         !.updatedAt = t, !.updatedBy = username])

\* The areas of the entry screen: all for an admin, the assigned ones
\* otherwise.
LegacyScope(user) ==
    IF user.role = "admin" THEN legacy.areas ELSE user.assignedAreas

\* The timer debouncedSave sets for a key.
Timer(dateString, areaName, field, value) ==
    [op |-> "debouncedSave", dateString |-> dateString, areaName |-> areaName,
     field |-> field, value |-> value]

\* The timers set for the key of the timer c and not yet fired.
SameKey(c) ==
    {c2 \in pending : /\ c2.op = "debouncedSave"
                      /\ c2.dateString = c.dateString
                      /\ c2.areaName = c.areaName
                      /\ c2.field = c.field}

\* The input handler of a Present Count field of the screen rendered for
\* username: EntryView.debouncedSave clears the key's timer and sets one.
LegacyPresentInput(username, dateString, areaName, value) ==
    LET i == FindUser(legacy.users, username)
        c == Timer(dateString, areaName, "presentCount", value)
    IN  /\ i # 0
        /\ Includes(LegacyScope(legacy.users[i]), areaName)
        /\ pending' = (pending \ SameKey(c)) \cup {c}
        /\ last' = [op |-> "legacyInput", res |-> "undefined", arg |-> dateString]
        /\ UNCHANGED <<now, session, users, fails, ledgerVars, legacyVars,
                       screen, settings>>

\* The callback of a debounce timer, DEBOUNCE_DELAY after it was set, with
\* username logged in.
LegacyTimerFires(username, c) ==
    LET i == FindUser(legacy.users, username)
    IN  /\ c \in pending
        /\ c.op = "debouncedSave"
        /\ i # 0
        /\ pending' = pending \ {c}
        /\ legacy' = [legacy EXCEPT !.attendance =
                        updateArea(@, username, now, c.dateString, c.areaName,
                                   [fields |-> {c.field}, presentCount |-> c.value,
                                    confirmed |-> FALSE])]
        /\ last' = [op |-> "legacyDebouncedSave", res |-> "Saved",
                    arg |-> c.dateString]
        /\ UNCHANGED <<now, session, users, fails, ledgerVars, dialog, asking,
                       screen, settings>>

\* The loop of EntryView.clearAll over the areas still to clear.
RECURSIVE clearAreas(_, _, _, _, _)
clearAreas(att, username, t, dateString, list) ==
    IF list = << >> THEN att
    ELSE clearAreas(updateArea(att, username, t, dateString, Head(list),
                               [fields |-> {"presentCount", "confirmed"},
                                presentCount |-> Null, confirmed |-> FALSE]),
                    username, t, dateString, Tail(list))

\* EntryView.clearAll of part_001, confirmed, with username logged in.
LegacyClearAll(username, dateString) ==
    LET i == FindUser(legacy.users, username)
    IN  /\ i # 0
        /\ legacy' = [legacy EXCEPT !.attendance =
                        clearAreas(@, username, now, dateString,
                                   LegacyScope(legacy.users[i]))]
        /\ last' = [op |-> "legacyClearAll", res |-> "All entries cleared",
                    arg |-> dateString]
        /\ UNCHANGED <<authVars, ledgerVars, dialog, asking, screen, settings>>

\* The Confirmed checkbox of an area with a count, ticked.
LegacyConfirm(username, dateString, areaName) ==
    LET i == FindUser(legacy.users, username)
    IN  /\ i # 0
        /\ Includes(LegacyScope(legacy.users[i]), areaName)
        /\ getAreaData(legacy.attendance, dateString, areaName).presentCount # Null
        /\ legacy' = [legacy EXCEPT !.attendance =
                        updateArea(@, username, now, dateString, areaName,
                                   [fields |-> {"confirmed"}, presentCount |-> Null,
                                    confirmed |-> TRUE])]
        /\ last' = [op |-> "legacyConfirm", res |-> "Saved", arg |-> dateString]
        /\ UNCHANGED <<authVars, ledgerVars, dialog, asking, screen, settings>>

NextDebounce ==
    \/ \E d \in Dates, a \in AreaNames, v \in DebounceValues :
          LegacyPresentInput("alice", d, a, v)
    \/ \E c \in pending : LegacyTimerFires("alice", c)
    \/ \E d \in Dates : LegacyClearAll("alice", d)
    \/ \E d \in Dates, a \in AreaNames : LegacyConfirm("alice", d, a)

SpecDebounce == InitUsers /\ [][NextDebounce]_vars

\* Every area of the screen is blank on the date: no count, not confirmed.
Cleared(att, dateString, list) ==
    \A k \in 1..Len(list) :
        LET d == getAreaData(att, dateString, list[k])
        IN  d.presentCount = Null /\ d.confirmed = FALSE

\* C36: clearAll leaves every area of the date blank, and while no new
\* input is made a debounce timer set before it does not write afterwards;
\* an input leaves one timer for its date, area and field, holding the last
\* value, and the timer writes that value.
C36_ClearAllStaysCleared ==
    [][ /\ \A d \in Dates :
             LegacyClearAll("alice", d) => Cleared(legacy'.attendance, d, legacy.areas)
        /\ \A c \in pending :
             (LegacyTimerFires("alice", c) /\ last.op = "legacyClearAll"
                /\ last.arg = c.dateString)
             => Cleared(legacy'.attendance, c.dateString, legacy.areas)
        /\ \A d \in Dates, a \in AreaNames, v \in DebounceValues :
             LegacyPresentInput("alice", d, a, v)
             => SameKey(Timer(d, a, "presentCount", v))' = {Timer(d, a, "presentCount", v)}
        /\ \A c \in pending :
             (c.op = "debouncedSave" /\ LegacyTimerFires("alice", c))
             => getAreaData(legacy'.attendance, c.dateString, c.areaName).presentCount
                  = c.value ]_vars

-----------------------------------------------------------------------------
(* Rows change only under a live session *)

NextStamp ==
    \/ \E d \in Dates, a \in AreaNames : AddOrUpdateRow(d, a, <<"W">>)
    \/ \E d \in Dates, a \in AreaNames, k \in Keys :
          UpdateRow(d, a, k, [fields |-> {"present"}, present |-> 3, confirmed |-> FALSE])
    \/ \E d \in Dates, a \in AreaNames, k \in Keys : DeleteRow(d, a, k)
    \/ Logout
    \/ \E d \in TickSteps : Tick(d)

SpecStamp == InitLedger /\ [][NextStamp]_vars

\* The rows of some area of the date differ between the documents.
RowsDiffer(att, att2, dateStr) ==
    \E a \in AreaNames :
        RowsOf(getAttendanceForDate(att, dateStr), a)
            # RowsOf(getAttendanceForDate(att2, dateStr), a)

\* C37: without a current user the attendance documents stay as they are,
\* and a step that changes the rows of a date leaves the date stamped with
\* the time and the acting user.
C37_RowsChangeUnderSession ==
    [][ LET r == CurrentUser(session, users, now)
        IN  /\ r.user = NoUser => attendance' = attendance
            /\ \A d \in Dates :
                 RowsDiffer(attendance, attendance', d)
                 => /\ getAttendanceForDate(attendance', d).updatedAt = now
                    /\ getAttendanceForDate(attendance', d).updatedBy = r.user ]_vars

-----------------------------------------------------------------------------
(* The suggestion list and normalized keys *)

\* C38: the list getSuggestions returns holds no two labels with the same
\* normalized key, whatever areas the designations were recorded in.
C38_SuggestionsKeysDiffer ==
    last.op = "getSuggestions" => KeysDiffer(last.res)

-----------------------------------------------------------------------------
(* The shape of the persisted session *)

\* Nobody is logged in exactly when there is no expiry, the count is not
\* negative, and a cooldown is set only at MAX_LOGIN_ATTEMPTS or more.
SessionShape(sess) ==
    /\ (sess.currentUser = NoUser) <=> (sess.expiresAt = Null)
    /\ sess.failedLogin.count >= 0
    /\ sess.failedLogin.cooldownUntil # Null
         => sess.failedLogin.count >= MAX_LOGIN_ATTEMPTS

\* C39: every session document reached through login, logout and
\* getCurrentUser has currentUser null exactly when expiresAt is null, a
\* count of 0 or more and a cooldown only with a count of 5 or more; and the
\* count goes back to 0 only in the step that completes a login with the
\* right password.
C39_SessionShape ==
    /\ []SessionShape(session)
    /\ [][ (session.failedLogin.count # 0 /\ session'.failedLogin.count = 0)
           => /\ \E c \in pending :
                    /\ LoginResume(c)
                    /\ hashPassword(c.password, c.salt) = c.passwordHash
              /\ last' = [op |-> "login", res |-> "ok"]
              /\ session'.currentUser # NoUser ]_vars

\* Five failed logins, then a logout: the count and the cooldown are kept
\* and nobody is logged in.
C39_Witness ==
    /\ last.op = "logout"
    /\ session.currentUser = NoUser
    /\ session.expiresAt = Null
    /\ session.failedLogin.count >= MAX_LOGIN_ATTEMPTS
    /\ session.failedLogin.cooldownUntil # Null

====
